---- MODULE Spec2Model ----
(***************************************************************************)
(* LociGraph server core: parse.py (noise classifier, action extractor,    *)
(* tree simplifier), utils/html.py (text extraction, style resolver),      *)
(* rank.py (keyword selection, relevance ranker) and dtos.py (Element      *)
(* ordering).                                                              *)
(*                                                                         *)
(* The lxml document is an arena of nodes: every element keeps its         *)
(* identity (its index) for the whole run, also after it has been          *)
(* unlinked from the tree.  Strings are TLA+ strings; a character is a     *)
(* string of length one.  Relevancy values are counted in quarters         *)
(* (LOW = 1/4 ... HIGHEST = 4/4) and products are exact rationals.         *)
(***************************************************************************)
EXTENDS Integers, Sequences, FiniteSets, TLC

VARIABLES nodes, all_rules, title, actions, pc, pass, firstOut, rankLog, flagged,
          pool, ranked, globals, loads, tpc, calls, relation, top_keywords

\* what one parse() and rank() on one document leave alone: the globals of
\* rank.py with the threads that call expand_keywords, a second parse() call
\* and a query handed to get_top_keywords on its own
sideVars == <<globals, loads, tpc, calls, relation, top_keywords>>

vars == <<nodes, all_rules, title, actions, pc, pass, firstOut, rankLog, flagged, pool, ranked,
          sideVars>>

(***************************************************************************)
(* Bounds of the model                                                     *)
(***************************************************************************)
\* number of body blocks of an input document
MaxBlocks == 2
\* number of times the cleaning pipeline is applied to one tree
MaxPasses == 2
\* number of rank() calls made on one ParsedWebpageData object
MaxRankCalls == 2

None == "None"

(***************************************************************************)
(* Strings (Python str)                                                    *)
(***************************************************************************)
NL == "\n"

Ch(s, i) == SubSeq(s, i, i)

\* the lower-case letter of each upper-case letter
LowerTable ==
    [c \in {Ch("ABCDEFGHIJKLMNOPQRSTUVWXYZ", i) : i \in 1..26} |->
        Ch("abcdefghijklmnopqrstuvwxyz",
           CHOOSE i \in 1..26 : Ch("ABCDEFGHIJKLMNOPQRSTUVWXYZ", i) = c)]

RECURSIVE Lower(_)
\* str.lower()
Lower(s) ==
    IF s = "" THEN ""
    ELSE (IF Head(s) \in DOMAIN LowerTable THEN LowerTable[Head(s)] ELSE Head(s))
         \o Lower(Tail(s))

\* the rank, in code point order, of each character that occurs in structural
\* paths and texts
OrdTable ==
    [c \in {Ch(" #()*+,-./0123456789:;=ABCDEFGHIJKLMNOPQRSTUVWXYZ[]_abcdefghijklmnopqrstuvwxyz|", i) :
              i \in 1..79} |->
        CHOOSE i \in 1..79 :
            Ch(" #()*+,-./0123456789:;=ABCDEFGHIJKLMNOPQRSTUVWXYZ[]_abcdefghijklmnopqrstuvwxyz|", i) = c]

\* ord(c), relative to the space character; a newline sorts before it
Ord(c) == IF c \in DOMAIN OrdTable THEN OrdTable[c] ELSE 0

RECURSIVE StrLess(_, _)
\* Python's str.__lt__: lexicographic by code point, a proper prefix is smaller
StrLess(a, b) ==
    IF b = "" THEN FALSE
    ELSE IF a = "" THEN TRUE
    ELSE IF Head(a) # Head(b) THEN Ord(Head(a)) < Ord(Head(b))
    ELSE StrLess(Tail(a), Tail(b))

IsSpace(c) == c \in {" ", NL, "\t"}

\* `sub in s`
Contains(s, sub) ==
    \E i \in 1..(Len(s) - Len(sub) + 1) : SubSeq(s, i, i + Len(sub) - 1) = sub

RECURSIVE LStrip(_)
LStrip(s) == IF s # "" /\ IsSpace(Head(s)) THEN LStrip(Tail(s)) ELSE s

RECURSIVE RStrip(_)
RStrip(s) ==
    IF s # "" /\ IsSpace(Ch(s, Len(s))) THEN RStrip(SubSeq(s, 1, Len(s) - 1)) ELSE s

\* str.strip()
Strip(s) == RStrip(LStrip(s))

RECURSIVE Join(_, _)
\* sep.join(parts)
Join(sep, parts) ==
    IF parts = <<>> THEN ""
    ELSE IF Len(parts) = 1 THEN parts[1]
    ELSE parts[1] \o sep \o Join(sep, Tail(parts))

RECURSIVE SplitOn(_, _, _)
\* str.split(c) for a one-character separator; cur is the piece being read
SplitOn(s, c, cur) ==
    IF s = "" THEN <<cur>>
    ELSE IF Head(s) = c THEN <<cur>> \o SplitOn(Tail(s), c, "")
    ELSE SplitOn(Tail(s), c, cur \o Head(s))

RECURSIVE Repeat(_, _)
\* c * n
Repeat(c, n) == IF n <= 0 THEN "" ELSE c \o Repeat(c, n - 1)

RECURSIVE ToStr(_)
\* str(n) for a natural number
ToStr(n) ==
    IF n < 10 THEN Ch("0123456789", n + 1)
    ELSE ToStr(n \div 10) \o Ch("0123456789", (n % 10) + 1)

RECURSIVE Flatten(_)
\* concatenation of a sequence of sequences
Flatten(ss) == IF ss = <<>> THEN <<>> ELSE Head(ss) \o Flatten(Tail(ss))

(***************************************************************************)
(* Attributes (lxml element.attrib): a function from names to strings      *)
(***************************************************************************)
NoAttr == [x \in {} |-> ""]

\* element.get(k, default)
Get(a, k, default) == IF k \in DOMAIN a THEN a[k] ELSE default

\* element.set(k, v)
SetAttr(a, k, v) == IF k \in DOMAIN a THEN [a EXCEPT ![k] = v] ELSE a @@ (k :> v)

FLAG_ATTRIBUTE_TYPE == "locigraph-type"

FLAG_ATTRIBUTE_XPATH == "locigraph-xpath"

FLAG_VALUE_NOISE == "noise"

FLAG_VALUE_SIMPLIFIED == "simplified"

COMMENT == "<!---->"

(***************************************************************************)
(* The document tree (lxml HtmlElement / _ElementTree)                     *)
(*   ns[i] = [tag, text, tail, attrs, css, parent, kids]; parent = 0 when  *)
(*   the node is the root or has been unlinked; node 1 is the root `html`  *)
(*   handed to every pass.  An absent text or tail is the empty string.    *)
(***************************************************************************)
Root == 1

RECURSIVE IterSeq(_, _)
RECURSIVE Iter(_, _)
\* element.iter(): the element and its descendants in document order
Iter(ns, i) == <<i>> \o IterSeq(ns, ns[i].kids)

IterSeq(ns, ks) == IF ks = <<>> THEN <<>> ELSE Iter(ns, Head(ks)) \o IterSeq(ns, Tail(ks))

\* html.xpath("//*"): every element of the document, in document order
AllElements(ns) == SelectSeq(Iter(ns, Root), LAMBDA i : ns[i].tag # COMMENT)

\* the set of nodes reachable from the root
Reachable(ns) == {Iter(ns, Root)[k] : k \in 1..Len(Iter(ns, Root))}

\* position of x in the sequence s (0 when absent)
IndexOf(s, x) == IF \E k \in 1..Len(s) : s[k] = x THEN CHOOSE k \in 1..Len(s) : s[k] = x ELSE 0

\* append text t after the content that precedes node i, a node with a parent:
\* to the tail of the previous sibling (element.getprevious()), or to the text
\* of the parent when there is none
JoinBefore(ns, i, t) ==
    LET p == ns[i].parent
        k == IndexOf(ns[p].kids, i)
    IN IF t = "" THEN ns
       ELSE IF k <= 1 THEN [ns EXCEPT ![p].text = @ \o t]
       ELSE [ns EXCEPT ![ns[p].kids[k - 1]].tail = @ \o t]

\* s with its k-th element replaced by the sequence r
Splice(s, k, r) == SubSeq(s, 1, k - 1) \o r \o SubSeq(s, k + 1, Len(s))

\* lxml.html HtmlMixin.drop_tree(): unlink the element and its subtree, keeping
\* its tail text in the tree.  An element without a parent raises (the caller
\* catches it): the tree is unchanged.
DropTree(ns, i) ==
    LET p == ns[i].parent
        n1 == JoinBefore(ns, i, ns[i].tail)
    IN IF p = 0 THEN ns
       ELSE [n1 EXCEPT ![p].kids = Splice(@, IndexOf(@, i), <<>>),
                       ![i].parent = 0]

\* The loops over elements below are folds over the arena; each tests the
\* arena it is handed, so that a step has finished before the next one starts,
\* as in the code.
RECURSIVE SetParents(_, _, _)
\* the elements ks become children of p
SetParents(ns, ks, p) ==
    IF ks = <<>> \/ ns = <<>> THEN ns
    ELSE SetParents([ns EXCEPT ![Head(ks)].parent = p], Tail(ks), p)

\* lxml.html HtmlMixin.drop_tag(): replace the element by its children, its text
\* and tail staying in the tree.  Raises on an element without a parent.
LxmlDropTag(ns, i) ==
    LET p == ns[i].parent
        ks == ns[i].kids
        n1 == JoinBefore(ns, i, ns[i].text)
        n2 == IF ns[i].tail = "" THEN n1
              ELSE IF ks # <<>> THEN [n1 EXCEPT ![ks[Len(ks)]].tail = @ \o ns[i].tail]
              ELSE JoinBefore(n1, i, ns[i].tail)
        n3 == [n2 EXCEPT ![p].kids = Splice(@, IndexOf(@, i), ks),
                         ![i].kids = <<>>,
                         ![i].parent = 0]
    IN IF p = 0 THEN ns ELSE SetParents(n3, ks, p)

\* one step of an xpath built by libxml2's xmlGetNodePath: the tag, indexed by
\* its position among the siblings of the same tag when there are several
PathStep(ns, i) ==
    LET p == ns[i].parent
        same == IF p = 0 THEN <<i>> ELSE SelectSeq(ns[p].kids, LAMBDA j : ns[j].tag = ns[i].tag)
    IN IF Len(same) <= 1 THEN "/" \o ns[i].tag
       ELSE "/" \o ns[i].tag \o "[" \o ToStr(IndexOf(same, i)) \o "]"

RECURSIVE GetPath(_, _)
\* tree.getpath(element)
GetPath(ns, i) ==
    IF ns[i].parent = 0 THEN PathStep(ns, i)
    ELSE GetPath(ns, ns[i].parent) \o PathStep(ns, i)

\* XPath text(): the non-empty text nodes that are children of the element
TextNodes(ns, i) ==
    SelectSeq(<<ns[i].text>> \o [k \in 1..Len(ns[i].kids) |-> ns[ns[i].kids[k]].tail],
              LAMBDA t : t # "")

\* a node-set of text nodes converted to a string: its first node
FirstText(ns, i) == IF TextNodes(ns, i) = <<>> THEN "" ELSE TextNodes(ns, i)[1]

RECURSIVE TextContent(_, _)
RECURSIVE TextContentSeq(_, _)
\* element.text_content(): the XPath string value
TextContent(ns, i) == ns[i].text \o TextContentSeq(ns, ns[i].kids)

TextContentSeq(ns, ks) ==
    IF ks = <<>> THEN ""
    ELSE (IF ns[Head(ks)].tag = COMMENT THEN "" ELSE TextContent(ns, Head(ks)))
         \o ns[Head(ks)].tail \o TextContentSeq(ns, Tail(ks))

(***************************************************************************)
(* utils/html.py: text extraction                                          *)
(***************************************************************************)
\* indent(text, bullet="- ", use_bullet): prefix the first line with the bullet
\* when use_bullet, every other line with as many spaces
Indent(text, use_bullet) ==
    LET lines == SplitOn(text, NL, "")
    IN Join(NL, [k \in 1..Len(lines) |->
                   (IF k = 1 /\ use_bullet THEN "- " ELSE "  ") \o lines[k]])

RECURSIVE CollapseNewlines(_, _, _)
\* re.sub(r"\s*\n\s*", "\n", text): every run of whitespace that holds a newline
\* becomes one newline; run is the whitespace run being read, nl whether it
\* holds a newline
CollapseNewlines(s, run, nl) ==
    IF s # "" /\ IsSpace(Head(s))
    THEN CollapseNewlines(Tail(s), run \o Head(s), nl \/ Head(s) = NL)
    ELSE (IF nl THEN NL ELSE run)
         \o (IF s = "" THEN "" ELSE Head(s) \o CollapseNewlines(Tail(s), "", FALSE))

\* tags that lxml.html maps to a subclass of HtmlElement (FormElement,
\* InputElement, ...): `type(node) is HtmlElement` is false for them, as it is
\* for a comment
SpecialClassTags == {"form", "input", "select", "textarea", "label"}

RECURSIVE get_text_content(_, _, _, _)
\* get_text_content(element, multiline=...)
get_text_content(ns, i, multiline, addr) ==
    LET \* element.xpath("node()"): the child nodes in document order; an element
        \* or comment is [id |-> its index], a text node [id |-> 0, s |-> its text]
        nodes_ ==
            (IF ns[i].text = "" THEN <<>> ELSE <<[id |-> 0, s |-> ns[i].text]>>)
            \o Flatten([k \in 1..Len(ns[i].kids) |->
                          <<[id |-> ns[i].kids[k], s |-> ""]>>
                          \o (IF ns[ns[i].kids[k]].tail = "" THEN <<>>
                              ELSE <<[id |-> 0, s |-> ns[ns[i].kids[k]].tail]>>)])
        \* str(node): of an element of a special class its repr, which holds the
        \* address of the Python proxy object
        str(n) ==
            IF n.id = 0 THEN n.s
            ELSE IF ns[n.id].tag = COMMENT THEN "<!--" \o ns[n.id].text \o "-->"
            ELSE IF ns[n.id].tag \in {"form", "label"}
            THEN "<Element " \o ns[n.id].tag \o " at 0x" \o addr \o ">"
            ELSE "<" \o ns[n.id].tag \o " " \o addr \o " name="
                 \o (IF "name" \in DOMAIN ns[n.id].attrs
                     THEN "'" \o ns[n.id].attrs["name"] \o "'" ELSE "None")
                 \o ">"
        \* lines 159-166 on the stripped text
        textline(text) ==
            IF text = "" THEN <<>>
            ELSE IF multiline THEN <<Indent(Strip(CollapseNewlines(text, "", FALSE)), TRUE)>>
            ELSE <<Join(", ", SplitOn(Strip(CollapseNewlines(text, "", FALSE)), NL, ""))>>
        line(n) ==
            IF n.id # 0 /\ ns[n.id].tag \notin (SpecialClassTags \cup {COMMENT})
            THEN (IF multiline
                  THEN <<Indent(get_text_content(ns, n.id, multiline, addr), FALSE)>>
                  ELSE <<get_text_content(ns, n.id, multiline, addr)>>)
            ELSE textline(Strip(str(n)))
    IN Join(IF multiline THEN NL ELSE "; ", Flatten([k \in 1..Len(nodes_) |-> line(nodes_[k])]))

(***************************************************************************)
(* utils/html.py: style resolver                                           *)
(*   a rule is [type, prelude, content]; content is the token list of the  *)
(*   declaration block as tinycss2 makes it, a token is [type, value]      *)
(***************************************************************************)
\* parse_css_to_ast(html.xpath("//style")): the rules of every <style> element,
\* in document order
parse_css_to_ast(ns) ==
    Flatten([k \in 1..Len(AllElements(ns)) |->
               IF ns[AllElements(ns)[k]].tag = "style" THEN ns[AllElements(ns)[k]].css ELSE <<>>])

\* get_next_ident_token(tokens, i): index of the first ident token at or after
\* i, 0 when there is none
get_next_ident_token(tokens, i) ==
    LET idx == {k \in i..Len(tokens) : tokens[k].type = "ident"}
    IN IF idx = {} THEN 0 ELSE CHOOSE k \in idx : \A m \in idx : k <= m

\* whether the token scan of one rule appends its selector: the scan stops at
\* the first ident token equal to the property that is followed by some ident
\* token, and appends when that ident token equals the value
RuleDeclares(rule, property, value) ==
    LET c == rule.content
        hits == {k \in 1..Len(c) : /\ c[k].type = "ident"
                                   /\ Lower(c[k].value) = property
                                   /\ get_next_ident_token(c, k + 1) # 0}
        first == CHOOSE k \in hits : \A m \in hits : k <= m
    IN /\ rule.type \in {"qualified-rule", "at-rule"}
       /\ hits # {}
       /\ Lower(c[get_next_ident_token(c, first + 1)].value) = value

\* filter_selectors(all_rules, property, value)
filter_selectors(rules, property, value) ==
    IF rules = None THEN <<>>
    ELSE LET hit == SelectSeq(rules, LAMBDA r : RuleDeclares(r, property, value))
         IN [k \in 1..Len(hit) |-> hit[k].prelude]

\* filter_selectors(all_rules, [(property, value), ...]) as parse.py calls it:
\* the selectors of every pair, in the order of the pairs
FilterSelectorsOfPairs(rules, pairs) ==
    Flatten([k \in 1..Len(pairs) |-> filter_selectors(rules, pairs[k][1], pairs[k][2])])

\* the words of a class attribute
ClassWords(a) == IF "class" \in DOMAIN a THEN SplitOn(a["class"], " ", "") ELSE <<>>

\* CSSSelector(sel)(html): the elements a selector matches, in document order;
\* a selector is a class selector ".name" or a type selector "tag"
Select(ns, sel) ==
    SelectSeq(AllElements(ns),
              LAMBDA j : IF Head(sel) = "."
                         THEN IndexOf(ClassWords(ns[j].attrs), Tail(sel)) # 0
                         ELSE ns[j].tag = sel)

(***************************************************************************)
(* Input documents: what lxml.html.fromstring returns.  A document is      *)
(* written as its elements in document order, each with its depth.         *)
(***************************************************************************)
N(d, tag, attrs, text, tail) ==
    [d |-> d, tag |-> tag, attrs |-> attrs, text |-> text, tail |-> tail, css |-> <<>>]

\* the rules tinycss2 makes of
\*   .box{display: none}.fade{opacity: 0}.ptr{cursor: pointer}
StyleRules ==
    LET tok(type, value) == [type |-> type, value |-> value]
        rule(prelude, content) ==
            [type |-> "qualified-rule", prelude |-> prelude, content |-> content]
    IN << rule(".box", <<tok("ident", "display"), tok("literal", ":"), tok("whitespace", " "),
                         tok("ident", "none")>>),
          rule(".fade", <<tok("ident", "opacity"), tok("literal", ":"), tok("whitespace", " "),
                          tok("number", "0")>>),
          rule(".ptr", <<tok("ident", "cursor"), tok("literal", ":"), tok("whitespace", " "),
                         tok("ident", "pointer")>>),
          rule(".veil", <<tok("ident", "visibility"), tok("literal", ":"), tok("whitespace", " "),
                          tok("ident", "hidden")>>),
          rule(".note", <<tok("ident", "color"), tok("literal", ":"), tok("whitespace", " "),
                          tok("ident", "red")>>) >>

\* the blocks a document body is made of
Palette ==
    << \* <p>Alex studied at Bard College</p>
       << N(0, "p", NoAttr, "Alex studied at Bard College", "") >>,
       \* <div style="display:none"><a href="#">x</a></div>
       << N(0, "div", [style |-> "display:none"], "", ""),
          N(1, "a", [href |-> "#"], "x", "") >>,
       \* <div style="display: none"><a href="/h">y</a></div>
       << N(0, "div", [style |-> "display: none"], "", ""),
          N(1, "a", [href |-> "/h"], "y", "") >>,
       \* <table><tr><td>A</td><td>B</td></tr></table>
       << N(0, "table", NoAttr, "", ""),
          N(1, "tr", NoAttr, "", ""),
          N(2, "td", NoAttr, "A", ""),
          N(2, "td", NoAttr, "B", "") >>,
       \* <table><caption>Cap</caption><thead><tr><th>H</th></tr></thead><tr><td>C</td></tr></table>
       << N(0, "table", NoAttr, "", ""),
          N(1, "caption", NoAttr, "Cap", ""),
          N(1, "thead", NoAttr, "", ""),
          N(2, "tr", NoAttr, "", ""),
          N(3, "th", NoAttr, "H", ""),
          N(1, "tr", NoAttr, "", ""),
          N(2, "td", NoAttr, "C", "") >>,
       \* <ul><li>one</li><li>two</li></ul>
       << N(0, "ul", NoAttr, "", ""),
          N(1, "li", NoAttr, "one", ""),
          N(1, "li", NoAttr, "two", "") >>,
       \* <input type="search" placeholder="Search">
       << N(0, "input", [type |-> "search", placeholder |-> "Search"], "", "") >>,
       \* <input name="q" value="alex">
       << N(0, "input", [name |-> "q", value |-> "alex"], "", "") >>,
       \* <button>Go</button> now
       << N(0, "button", NoAttr, "Go", " now") >>,
       \* <nav><a href="/n">about alex</a></nav>
       << N(0, "nav", NoAttr, "", ""),
          N(1, "a", [href |-> "/n"], "about alex", "") >>,
       \* <div class="big box">boxed<b class="ptr">more</b></div>
       << N(0, "div", [class |-> "big box"], "boxed", ""),
          N(1, "b", [class |-> "ptr"], "more", "") >>,
       \* <span class="none">n</span><!--c-->
       << N(0, "span", [class |-> "none"], "n", ""),
          N(0, COMMENT, NoAttr, "c", "") >> >>

\* blocks whose text mentions the entity of a query, for the ranker
FragmentPalette ==
    << \* <table><tr><td>Alex</td><td>Bard</td></tr></table>
       << N(0, "table", NoAttr, "", ""),
          N(1, "tr", NoAttr, "", ""),
          N(2, "td", NoAttr, "Alex", ""),
          N(2, "td", NoAttr, "Bard", "") >>,
       \* <b>Alex</b>
       << N(0, "b", NoAttr, "Alex", "") >>,
       \* <ul><li>Alex</li><li>Bard</li></ul>
       << N(0, "ul", NoAttr, "", ""),
          N(1, "li", NoAttr, "Alex", ""),
          N(1, "li", NoAttr, "Bard", "") >>,
       \* <div class="box"><p class="veil">Alex</p></div>
       << N(0, "div", [class |-> "box"], "", ""),
          N(1, "p", [class |-> "veil"], "Alex", "") >>,
       \* <p class="fade">Alex studied</p>
       << N(0, "p", [class |-> "fade"], "Alex studied", "") >>,
       \* <ol><li>Alex</li><li>Bard</li></ol>
       << N(0, "ol", NoAttr, "", ""),
          N(1, "li", NoAttr, "Alex", ""),
          N(1, "li", NoAttr, "Bard", "") >>,
       \* <nav><main><a href="/m">about alex</a></main></nav>
       << N(0, "nav", NoAttr, "", ""),
          N(1, "main", NoAttr, "", ""),
          N(2, "a", [href |-> "/m"], "about alex", "") >>,
       \* <section><a href="/x" onclick="go()">Alex</a><textarea name="q" onclick="go()"></textarea></section>
       << N(0, "section", NoAttr, "", ""),
          N(1, "a", [href |-> "/x", onclick |-> "go()"], "Alex", ""),
          N(1, "textarea", [name |-> "q", onclick |-> "go()"], "", "") >> >>

\* <html class=...> [<head><title>..</title><style>..</style></head>] <body>
Preamble(kind) ==
    << N(0, "html", IF kind = "hidden-root" THEN [class |-> "hidden"] ELSE NoAttr, "", "") >>
    \o (IF kind = "styled"
        THEN << N(1, "head", NoAttr, "", ""),
                N(2, "title", NoAttr, "About Alex", ""),
                [N(2, "style", NoAttr, ".box{display: none}.fade{opacity: 0}.ptr{cursor: pointer}.veil{visibility: hidden}.note{color: red}", "")
                    EXCEPT !.css = StyleRules] >>
        ELSE <<>>)
    \o << N(1, "body", NoAttr, "", "") >>

\* the elements of the document of a kind with the given blocks in its body
Preorder(kind, blocks) ==
    LET shift(block, k) == [i \in 1..Len(block) |-> [block[i] EXCEPT !.d = @ + k]]
    IN Preamble(kind)
       \o Flatten([k \in 1..Len(blocks) |-> shift((Palette \o FragmentPalette)[blocks[k]], 2)])

\* the arena of a document given in document order with depths
MkNodes(pre) ==
    LET par(i) == IF pre[i].d = 0 THEN 0
                  ELSE CHOOSE j \in 1..(i - 1) :
                         /\ pre[j].d = pre[i].d - 1
                         /\ \A m \in (j + 1)..(i - 1) : pre[m].d >= pre[i].d
        kidset(i) == {j \in 1..Len(pre) : pre[j].d > 0 /\ par(j) = i}
        RECURSIVE asc(_, _)
        asc(S, from) == IF S = {} THEN <<>>
                        ELSE IF from \in S THEN <<from>> \o asc(S \ {from}, from + 1)
                        ELSE asc(S, from + 1)
    IN [i \in 1..Len(pre) |->
          [tag |-> pre[i].tag, text |-> pre[i].text, tail |-> pre[i].tail,
           attrs |-> pre[i].attrs, css |-> pre[i].css,
           parent |-> par(i), kids |-> asc(kidset(i), 1)]]

\* the documents: a root and head of one of three kinds, and at most MaxBlocks
\* blocks in the body
Documents ==
    {MkNodes(Preorder(kind, bs)) :
        kind \in {"plain", "hidden-root", "styled"},
        bs \in UNION {[1..k -> 1..Len(Palette)] : k \in 0..MaxBlocks}}

\* the addresses Python may give to an element proxy object, as far as they can
\* show in a text extracted from the tree: str() of an element is read only of
\* elements of the special classes
AddressChoices(ns) ==
    IF \E i \in DOMAIN ns : ns[i].tag \in SpecialClassTags /\ ns[i].parent # 0
    THEN {"7f3a10", "7f3a58"} ELSE {"7f3a10"}

(***************************************************************************)
(* State after the module is loaded and a document has been handed to      *)
(* parse(): all_rules is the module global, None until the first parse.    *)
(***************************************************************************)
\* rank.py, lines 328-330: en = None, index = None, stopwords = None
NoGlobals == [en |-> None, index |-> None, stopwords |-> None]

\* no collaborator has been loaded, no thread is in expand_keywords, no other
\* parse() call is in flight and no query has been handed to get_top_keywords
SideInit ==
    /\ globals = NoGlobals
    /\ loads = [en |-> 0, index |-> 0, stopwords |-> 0]
    /\ tpc = <<>>
    /\ calls = <<>>
    /\ relation = None
    /\ top_keywords = <<>>

Init ==
    /\ nodes \in Documents
    /\ all_rules = None
    /\ title = None
    /\ actions = <<>>
    /\ pc = "parse"
    /\ pass = 1
    /\ firstOut = None
    /\ rankLog = <<>>
    /\ flagged = {}
    /\ pool = <<>>
    /\ ranked = <<>>
    /\ SideInit

\* parse(), lines 58-66: the title and the style rule index
ParseHead ==
    /\ pc = "parse"
    /\ LET ts == SelectSeq(AllElements(nodes), LAMBDA i : nodes[i].tag = "title")
           t == Join(" ", Flatten([k \in 1..Len(ts) |-> TextNodes(nodes, ts[k])]))
       IN title' = IF Len(t) > 0 THEN t ELSE None
    /\ all_rules' = parse_css_to_ast(nodes)
    /\ pc' = "flag_noise"
    /\ UNCHANGED <<nodes, actions, pass, firstOut, rankLog, flagged, pool, ranked, sideVars>>

(***************************************************************************)
(* parse.py: noise classifier                                              *)
(***************************************************************************)
\* for element in elements: drop_tree(), a raised exception being skipped
RECURSIVE DropTrees(_, _)
DropTrees(ns, elems) ==
    IF elems = <<>> \/ ns = <<>> THEN ns
    ELSE DropTrees(DropTree(ns, Head(elems)), Tail(elems))

RECURSIVE SetFlags(_, _, _)
\* for child in ids: child.set(FLAG_ATTRIBUTE_TYPE, v)
SetFlags(ns, ids, v) ==
    IF ids = <<>> \/ ns = <<>> THEN ns
    ELSE SetFlags([ns EXCEPT ![Head(ids)].attrs = SetAttr(@, FLAG_ATTRIBUTE_TYPE, v)],
                  Tail(ids), v)

\* for element in elements: for child in element.iter(): child.set(k, v)
FlagSubtrees(ns, elems, v) ==
    SetFlags(ns, Flatten([k \in 1..Len(elems) |-> Iter(ns, elems[k])]), v)

\* noise_attributes: [attribute, substring] of each contains(@attribute, 'substring')
noise_attributes ==
    << <<"class", "hidden">>, <<"class", "invisible">>,
       <<"style", "display: none">>, <<"style", "visibility: hidden">> >>

noise_styles ==
    << <<"display", "none">>, <<"visibility", "hidden">>, <<"opacity", "0">>,
       <<"opacity", "0%">>, <<"transform", "scale(0)">>, <<"height", "0">>,
       <<"width", "0">> >>

noise_tags ==
    << "head", "title", "code", "script", "noscript", "style", "link", "meta",
       "iframe", "base", "svg", "path", "wbr" >>

\* html.xpath("//tag")
XPathTag(ns, tag) == SelectSeq(AllElements(ns), LAMBDA j : ns[j].tag = tag)

\* html.xpath("//*[@a='v']")
XPathAttrEq(ns, a, v) ==
    SelectSeq(AllElements(ns), LAMBDA j : a \in DOMAIN ns[j].attrs /\ ns[j].attrs[a] = v)

RECURSIVE FlagByAttributes(_, _)
\* flag_noise_elements, lines 152-160
FlagByAttributes(ns, preds) ==
    IF preds = <<>> \/ ns = <<>> THEN ns
    ELSE FlagByAttributes(
            FlagSubtrees(ns,
                         \* html.xpath("//*[contains(@attribute, 'substring')]")
                         SelectSeq(AllElements(ns),
                                   LAMBDA j : Contains(Get(ns[j].attrs, Head(preds)[1], ""),
                                                       Head(preds)[2])),
                         FLAG_VALUE_NOISE),
            Tail(preds))

RECURSIVE FlagBySelectors(_, _)
\* flag_noise_elements, lines 169-196: flag_elements_with_selector for every
\* selector; every task has returned when the executor is left
FlagBySelectors(ns, sels) ==
    IF sels = <<>> \/ ns = <<>> THEN ns
    ELSE FlagBySelectors(FlagSubtrees(ns, Select(ns, Head(sels)), FLAG_VALUE_NOISE),
                         Tail(sels))

RECURSIVE FlagByTags(_, _)
\* flag_noise_elements, lines 203-209
FlagByTags(ns, tags) ==
    IF tags = <<>> \/ ns = <<>> THEN ns
    ELSE FlagByTags(FlagSubtrees(ns, XPathTag(ns, Head(tags)), FLAG_VALUE_NOISE),
                    Tail(tags))

\* flag_noise_elements(html, tree) on the tree ns with the style rules rules
flag_noise_elements(ns, rules) ==
    FlagByTags(
        FlagBySelectors(
            FlagByAttributes(
                DropTrees(ns, SelectSeq(Iter(ns, Root), LAMBDA j : ns[j].tag = COMMENT)),
                noise_attributes),
            FilterSelectorsOfPairs(rules, noise_styles)),
        noise_tags)

\* flagged records the elements that carry the noise flag when the classifier
\* returns
FlagNoise ==
    /\ pc = "flag_noise"
    /\ \E m \in {flag_noise_elements(nodes, all_rules)} :
          /\ nodes' = m
          /\ flagged' = {j \in Reachable(m) :
                            Get(m[j].attrs, FLAG_ATTRIBUTE_TYPE, "") = FLAG_VALUE_NOISE}
    /\ pc' = "flag_action"
    /\ UNCHANGED <<all_rules, title, actions, pass, firstOut, rankLog, pool, ranked, sideVars>>

(***************************************************************************)
(* parse.py: action extractor                                              *)
(***************************************************************************)
click_event_attrs == {"onclick", "ondblclick", "onmousedown", "onmouseup"}

input_button_types == {"button", "reset", "submit"}

link_aria_widget_roles == <<"link">>

button_aria_widget_roles == <<"button">>

input_aria_widget_roles == <<"textbox", "searchbox">>

\* elements carrying one of the roles, role by role
ByRoles(ns, roles) == Flatten([k \in 1..Len(roles) |-> XPathAttrEq(ns, "role", roles[k])])

RECURSIVE FlagActionsOverNoise(_, _, _)
\* candidates are flagged whatever flag they carry
FlagActionsOverNoise(ns, elems, kind) ==
    IF elems = <<>> \/ ns = <<>> THEN ns
    ELSE FlagActionsOverNoise(
            [ns EXCEPT ![Head(elems)].attrs =
                SetAttr(SetAttr(@, FLAG_ATTRIBUTE_TYPE, kind),
                        FLAG_ATTRIBUTE_XPATH, GetPath(ns, Head(elems)))],
            Tail(elems), kind)

RECURSIVE FlagActionsKeepFirst(_, _, _)
\* a candidate that carries a flag already keeps it
FlagActionsKeepFirst(ns, elems, kind) ==
    IF elems = <<>> \/ ns = <<>> THEN ns
    ELSE FlagActionsKeepFirst(
            IF FLAG_ATTRIBUTE_TYPE \notin DOMAIN ns[Head(elems)].attrs
            THEN [ns EXCEPT ![Head(elems)].attrs =
                    SetAttr(SetAttr(@, FLAG_ATTRIBUTE_TYPE, kind),
                            FLAG_ATTRIBUTE_XPATH, GetPath(ns, Head(elems)))]
            ELSE ns,
            Tail(elems), kind)

RECURSIVE FlagActionsAfterCleanup(_, _, _)
\* the path is taken in the tree without its noise elements
FlagActionsAfterCleanup(ns, elems, kind) ==
    IF elems = <<>> \/ ns = <<>> THEN ns
    ELSE FlagActionsAfterCleanup(
            IF Get(ns[Head(elems)].attrs, FLAG_ATTRIBUTE_TYPE, None) # FLAG_VALUE_NOISE
            THEN [ns EXCEPT ![Head(elems)].attrs =
                    SetAttr(SetAttr(@, FLAG_ATTRIBUTE_TYPE, kind),
                            FLAG_ATTRIBUTE_XPATH,
                            GetPath(DropTrees(ns, XPathAttrEq(ns, FLAG_ATTRIBUTE_TYPE,
                                                              FLAG_VALUE_NOISE)),
                                    Head(elems)))]
            ELSE ns,
            Tail(elems), kind)

RECURSIVE FlagActions(_, _, _)
\* flag_action_elements, lines 326-332, for the candidates of one kind
FlagActions(ns, elems, kind) ==
    IF elems = <<>> \/ ns = <<>> THEN ns
    ELSE FlagActions(
            IF Get(ns[Head(elems)].attrs, FLAG_ATTRIBUTE_TYPE, None) # FLAG_VALUE_NOISE
            THEN [ns EXCEPT ![Head(elems)].attrs =
                    SetAttr(SetAttr(@, FLAG_ATTRIBUTE_TYPE, kind),
                            FLAG_ATTRIBUTE_XPATH, GetPath(ns, Head(elems)))]
            ELSE ns,
            Tail(elems), kind)

\* flag_action_elements(html, tree)
flag_action_elements(ns, rules) ==
    LET link_selectors == FilterSelectorsOfPairs(rules, <<<<"cursor", "pointer">>>>)
        links ==
            SelectSeq(AllElements(ns), LAMBDA j : ns[j].tag = "a" /\ Len(FirstText(ns, j)) > 0)
            \o Flatten([k \in 1..Len(link_selectors) |->
                          SelectSeq(Select(ns, link_selectors[k]),
                                    LAMBDA j : Len(Strip(TextContent(ns, j))) > 0)])
            \o ByRoles(ns, link_aria_widget_roles)
        buttons ==
            SelectSeq(AllElements(ns),
                      LAMBDA j : ns[j].tag = "button" /\ Len(FirstText(ns, j)) > 0)
            \o SelectSeq(AllElements(ns),
                         LAMBDA j : /\ ns[j].tag = "input"
                                    /\ Get(ns[j].attrs, "type", None) \in input_button_types)
            \o SelectSeq(AllElements(ns),
                         LAMBDA j : (DOMAIN ns[j].attrs) \cap click_event_attrs # {})
            \o ByRoles(ns, button_aria_widget_roles)
        inputs ==
            SelectSeq(AllElements(ns),
                      LAMBDA j : /\ ns[j].tag = "input"
                                 /\ Get(ns[j].attrs, "type", None)
                                       \notin (input_button_types \cup {"hidden"}))
            \o XPathTag(ns, "textarea")
            \o ByRoles(ns, input_aria_widget_roles)
    IN FlagActions(FlagActions(FlagActions(ns, links, "LINK"), buttons, "BUTTON"),
                   inputs, "INPUT")

FlagAction ==
    /\ pc = "flag_action"
    /\ nodes' = flag_action_elements(nodes, all_rules)
    /\ pc' = "remove_noise"
    /\ UNCHANGED <<all_rules, title, actions, pass, firstOut, rankLog, flagged, pool, ranked, sideVars>>

\* remove_noise_elements(html, tree)
remove_noise_elements(ns) ==
    DropTrees(ns, XPathAttrEq(ns, FLAG_ATTRIBUTE_TYPE, FLAG_VALUE_NOISE))

RemoveNoise ==
    /\ pc = "remove_noise"
    /\ nodes' = remove_noise_elements(nodes)
    /\ pc' = IF pass = 1 THEN "replace_roles" ELSE "simplify"
    /\ UNCHANGED <<all_rules, title, actions, pass, firstOut, rankLog, flagged, pool, ranked, sideVars>>

\* aria_landmark_roles_to_tags
aria_landmark_roles_to_tags ==
    [banner |-> "header", complementary |-> "aside", contentinfo |-> "footer",
     form |-> "form", main |-> "main", navigation |-> "nav", region |-> "section",
     search |-> "form"]

RECURSIVE SetTags(_, _)
\* for element in elements: element.tag = the tag of its role
SetTags(ns, elems) ==
    IF elems = <<>> \/ ns = <<>> THEN ns
    ELSE SetTags([ns EXCEPT ![Head(elems)].tag =
                     aria_landmark_roles_to_tags[ns[Head(elems)].attrs["role"]]],
                 Tail(elems))

\* replace_aria_roles(html, tree)
replace_aria_roles(ns) ==
    SetTags(ns, SelectSeq(AllElements(ns),
                          LAMBDA j : Get(ns[j].attrs, "role", None) \in DOMAIN aria_landmark_roles_to_tags))

ReplaceAriaRoles ==
    /\ pc = "replace_roles"
    /\ nodes' = replace_aria_roles(nodes)
    /\ pc' = "get_actions"
    /\ UNCHANGED <<all_rules, title, actions, pass, firstOut, rankLog, flagged, pool, ranked, sideVars>>

(***************************************************************************)
(* parse.py: get_action_elements; dtos.py: ActionElement                   *)
(*   an ActionElement is [xpath, modified_xpath, html_element, type,       *)
(*   content, details, relevance, id]; details is the sequence of its      *)
(*   <<key, value>> items in insertion order, empty for None (the code     *)
(*   never stores an empty dict); relevance is NoRelevance for None        *)
(***************************************************************************)
NoRelevance == [none |-> 0]

ActionElement(xpath, modified_xpath, e, type, content, details) ==
    [xpath |-> xpath, modified_xpath |-> modified_xpath, html_element |-> e,
     type |-> type, content |-> content, details |-> details,
     relevance |-> NoRelevance, id |-> -1]

\* get_action_elements(html, tree)
get_action_elements(ns, addr) ==
    LET \* lxml.html element.label: the first <label for=...> naming the id of
        \* the element, 0 when there is none
        label(e) ==
            LET ls == SelectSeq(AllElements(ns),
                                LAMBDA j : /\ ns[j].tag = "label"
                                           /\ "id" \in DOMAIN ns[e].attrs
                                           /\ Get(ns[j].attrs, "for", None) = ns[e].attrs["id"])
            IN IF Get(ns[e].attrs, "id", "") = "" \/ ls = <<>> THEN 0 ELSE ls[1]
        item(e, k) == IF Get(ns[e].attrs, k, "") # "" THEN << <<k, ns[e].attrs[k]>> >> ELSE <<>>
        labelled(l) == IF l # 0 /\ Strip(TextContent(ns, l)) # ""
                       THEN << <<"label", get_text_content(ns, l, FALSE, addr)>> >> ELSE <<>>
        \* lines 435-473
        input(e) ==
            IF FLAG_ATTRIBUTE_XPATH \notin DOMAIN ns[e].attrs THEN <<>>
            ELSE << ActionElement(ns[e].attrs[FLAG_ATTRIBUTE_XPATH], GetPath(ns, e), e, "INPUT",
                                  Get(ns[e].attrs, "value", None),
                                  item(e, "name") \o item(e, "type") \o item(e, "placeholder")
                                  \o item(e, "aria-label") \o item(e, "value")
                                  \o labelled(label(e))) >>
        \* lines 476-497 and 500-529, content being the text of the element
        withContent(e, type, content, details) ==
            IF FLAG_ATTRIBUTE_XPATH \notin DOMAIN ns[e].attrs \/ Len(content) = 0 THEN <<>>
            ELSE << ActionElement(ns[e].attrs[FLAG_ATTRIBUTE_XPATH], GetPath(ns, e), e, type,
                                  content, details) >>
        href(e) == Get(ns[e].attrs, "href", None)
        inputs == XPathAttrEq(ns, FLAG_ATTRIBUTE_TYPE, "INPUT")
        buttons == XPathAttrEq(ns, FLAG_ATTRIBUTE_TYPE, "BUTTON")
        links == XPathAttrEq(ns, FLAG_ATTRIBUTE_TYPE, "LINK")
    IN Flatten([k \in 1..Len(inputs) |-> input(inputs[k])])
       \o Flatten([k \in 1..Len(buttons) |->
                     withContent(buttons[k], "BUTTON",
                                 get_text_content(ns, buttons[k], FALSE, addr), <<>>)])
       \o Flatten([k \in 1..Len(links) |->
                     withContent(links[k], "LINK",
                                 get_text_content(ns, links[k], FALSE, addr),
                                 IF href(links[k]) \notin {None, ""} /\ Head(href(links[k])) # "#"
                                 THEN << <<"href", href(links[k])>> >> ELSE <<>>)])

GetActionElements ==
    /\ pc = "get_actions"
    /\ \E addr \in AddressChoices(nodes) : actions' = get_action_elements(nodes, addr)
    /\ pc' = "simplify"
    /\ UNCHANGED <<nodes, all_rules, title, pass, firstOut, rankLog, flagged, pool, ranked, sideVars>>

(***************************************************************************)
(* parse.py: tree simplifier                                               *)
(***************************************************************************)
RECURSIVE drop_tag(_, _)
\* drop_tag(elements): a space is put before the tail of each element, then
\* its tag is dropped; on an element without a parent drop_tag() raises after
\* the tail was changed, and the exception is skipped
\* (tree and elements are bound to ns and elems first, so that each turn of the
\* loop works on the tree the turn before has left)
drop_tag(tree, elements) ==
    CHOOSE r \in
        {IF elems = <<>> THEN ns
         ELSE drop_tag(IF ns[Head(elems)].parent = 0
                       THEN [ns EXCEPT ![Head(elems)].tail = " " \o @]
                       ELSE LxmlDropTag([ns EXCEPT ![Head(elems)].tail = " " \o @], Head(elems)),
                       Tail(elems)) : ns \in {tree}, elems \in {elements}} : TRUE

\* the elements a selector of simplify_html matches: sel is a tag, or
\*   "empty":     "//*[not(normalize-space())]"
\*   "one-child": "//*[count(*) = 1 and not(normalize-space(text()))]"
XPathOf(ns, sel) ==
    IF sel = "empty"
    THEN SelectSeq(AllElements(ns), LAMBDA j : Strip(TextContent(ns, j)) = "")
    ELSE IF sel = "one-child"
    THEN SelectSeq(AllElements(ns),
                   LAMBDA j : /\ Len(SelectSeq(ns[j].kids, LAMBDA c : ns[c].tag # COMMENT)) = 1
                              /\ Strip(FirstText(ns, j)) = "")
    ELSE XPathTag(ns, sel)

RECURSIVE DropLoop(_, _, _)
\* the loop of drop_tag_from_xpath; prev is prev_elements_count, -1 for None
DropLoop(ns, sel, prev) ==
    LET next(elements) ==
            IF prev = Len(elements) THEN ns
            ELSE DropLoop(drop_tag(ns, elements), sel, Len(elements))
    IN next(XPathOf(ns, sel))

\* drop_tag_from_xpath(root, xpath)
drop_tag_from_xpath(ns, sel) == DropLoop(ns, sel, -1)

cosmetic_tags ==
    << "a", "button", "abbr", "b", "br", "bdi", "bdo", "cite", "code", "data", "dfn",
       "em", "h1", "h2", "h3", "h4", "h5", "h6", "i", "kbd", "mark", "meter", "output",
       "progress", "q", "ruby", "rp", "rt", "s", "samp", "small", "span", "strong",
       "sub", "sup", "time", "u", "var", "del", "ins" >>

RECURSIVE DropCosmetic(_, _)
\* for tag in cosmetic_tags: drop_tag_from_xpath(html, f"//{tag}")
DropCosmetic(ns, tags) ==
    IF tags = <<>> \/ ns = <<>> THEN ns
    ELSE DropCosmetic(drop_tag_from_xpath(ns, Head(tags)), Tail(tags))

RECURSIVE ClearAttribs(_, _)
\* for e in html.iter(): e.attrib.clear()
ClearAttribs(ns, ids) ==
    IF ids = <<>> \/ ns = <<>> THEN ns
    ELSE ClearAttribs([ns EXCEPT ![Head(ids)].attrs = NoAttr], Tail(ids))

\* simplify_element_text(e, text): e.clear() unlinks the children and resets
\* text, tail and attributes; then the text and the simplified flag are set
simplify_element_text(ns, e, text) ==
    [SetParents(ns, ns[e].kids, 0) EXCEPT
        ![e].kids = <<>>,
        ![e].tail = "",
        ![e].text = text,
        ![e].attrs = (FLAG_ATTRIBUTE_TYPE :> FLAG_VALUE_SIMPLIFIED)]

\* the descendants of e with the given tag: e.xpath(".//tag")
Descendants(ns, e, tag) == SelectSeq(Tail(Iter(ns, e)), LAMBDA j : ns[j].tag = tag)

\* a row whose cells are joined with a comma
RowTextComma(ns, row, addr) ==
    Join(", ", [k \in 1..Len(ns[row].kids) |->
                  get_text_content(ns, ns[row].kids[k], FALSE, addr)])

\* the line(s) of one table row, lines 627-638
RowText(ns, row, addr) ==
    LET p == ns[row].parent
        framed(text) ==
            IF Len(text) > 0 /\ p # 0 /\ ns[p].tag = "thead"
            THEN text \o NL \o Repeat("-", Len(text))
            ELSE IF Len(text) > 0 /\ p # 0 /\ ns[p].tag = "tfoot"
            THEN Repeat("-", Len(text)) \o NL \o text
            ELSE text
    IN framed(Join(" | ", [k \in 1..Len(ns[row].kids) |->
                             get_text_content(ns, ns[row].kids[k], FALSE, addr)]))

\* the text a table is flattened to, lines 622-648
TableText(ns, table, addr) ==
    LET rows == Descendants(ns, table, "tr")
        caps == SelectSeq(Descendants(ns, table, "caption"),
                          LAMBDA c : Len(Strip(TextContent(ns, c))) > 0)
        captions == [k \in 1..Len(caps) |-> "[" \o Strip(TextContent(ns, caps[k])) \o "]"]
        contents == [k \in 1..Len(rows) |-> RowText(ns, rows[k], addr)]
    IN "[table]" \o NL \o Join(NL, captions \o contents)

RECURSIVE SimplifyTables(_, _, _)
\* for table in html.xpath("//table"), lines 616-651
SimplifyTables(ns, tables, addr) ==
    IF tables = <<>> \/ ns = <<>> THEN ns
    ELSE SimplifyTables(IF Len(Descendants(ns, Head(tables), "table")) > 0 THEN ns
                        ELSE simplify_element_text(ns, Head(tables),
                                                   TableText(ns, Head(tables), addr)),
                        Tail(tables), addr)

\* the text of a list made of the children of the element ul
ListText(ns, ul, addr) ==
    Join(NL, [k \in 1..Len(ns[ul].kids) |-> get_text_content(ns, ns[ul].kids[k], TRUE, addr)])

RECURSIVE SimplifyLists(_, _, _)
\* for ul in html.xpath("//ul") + html.xpath("//menu"), lines 662-671
SimplifyLists(ns, uls, addr) ==
    IF uls = <<>> \/ ns = <<>> THEN ns
    ELSE SimplifyLists(simplify_element_text(ns, Head(uls), ListText(ns, Head(uls), addr)),
                       Tail(uls), addr)

RECURSIVE ReplaceFirst(_, _, _)
\* str.replace(old, new, 1) for a one-character old
ReplaceFirst(s, old, new) ==
    IF s = "" THEN ""
    ELSE IF Head(s) = old THEN new \o Tail(s)
    ELSE Head(s) \o ReplaceFirst(Tail(s), old, new)

\* the text of an ordered list, lines 674-680: the items are those of `ul`, the
\* variable the loop over the unordered lists has left
OrderedListText(ns, ul, addr) ==
    Join(NL, [k \in 1..Len(ns[ul].kids) |->
                ReplaceFirst(get_text_content(ns, ns[ul].kids[k], TRUE, addr), "-",
                             ToStr(k - 1) \o ".")])

RECURSIVE SimplifyOrderedLists(_, _, _, _)
\* for ol in html.xpath("//ol"), lines 673-682
SimplifyOrderedLists(ns, ols, ul, addr) ==
    IF ols = <<>> \/ ns = <<>> THEN ns
    ELSE SimplifyOrderedLists(
            simplify_element_text(ns, Head(ols), OrderedListText(ns, ul, addr)),
            Tail(ols), ul, addr)

\* simplify_html(html, tree): [ns, raised], the tree it leaves and whether it
\* raises: the loop over the ordered lists reads the variable `ul`, which is
\* unbound when the loop over the unordered lists had nothing to visit
simplify_html(ns, addr) ==
    LET \* line 594
        hidden(n) == drop_tag(n, XPathAttrEq(n, "aria-hidden", "true"))
        \* lines 598-599
        cleared(n) == ClearAttribs(n, Iter(n, Root))
        \* lines 615-651
        tables(n) == SimplifyTables(n, XPathTag(n, "table"), addr)
        \* lines 673-682, uls being the lists the first loop has visited
        ordered(n, uls) ==
            IF XPathTag(n, "ol") = <<>> THEN [ns |-> n, raised |-> FALSE]
            ELSE IF uls = <<>> THEN [ns |-> n, raised |-> TRUE]
            ELSE [ns |-> SimplifyOrderedLists(n, XPathTag(n, "ol"), uls[Len(uls)], addr),
                  raised |-> FALSE]
        \* lines 662-671: html.xpath("//ul") + html.xpath("//menu")
        lists(n, uls) == ordered(SimplifyLists(n, uls, addr), uls)
        unordered(n) == lists(n, XPathTag(n, "ul") \o XPathTag(n, "menu"))
    IN unordered(
          drop_tag_from_xpath(
             tables(DropCosmetic(drop_tag_from_xpath(cleared(hidden(ns)), "empty"),
                                 cosmetic_tags)),
             "one-child"))

SimplifyHtml ==
    /\ pc = "simplify"
    /\ \E addr \in AddressChoices(nodes) :
          \E st \in {simplify_html(nodes, addr)} :
             /\ nodes' = st.ns
             /\ pc' = IF st.raised THEN "raised" ELSE "parsed"
    /\ UNCHANGED <<all_rules, title, actions, pass, firstOut, rankLog, flagged, pool, ranked, sideVars>>

\* the cleaning pipeline is applied again to the tree it has returned
Reapply ==
    /\ pc = "parsed"
    /\ rankLog = <<>>
    /\ pass < MaxPasses
    /\ firstOut' = nodes
    /\ pass' = pass + 1
    /\ pc' = "flag_noise"
    /\ UNCHANGED <<nodes, all_rules, title, actions, rankLog, flagged, pool, ranked, sideVars>>

(***************************************************************************)
(* dtos.py: Element relevance and ordering                                 *)
(*   Relevancy (rank.py) in quarters; a relevance is None or a record      *)
(*   from dimension names to tiers; a total relevance is the exact         *)
(*   fraction <<numerator, denominator>>                                   *)
(***************************************************************************)
LOW == 1

MEDIUM == 2

HIGH == 3

HIGHEST == 4

\* the denominator of a Relevancy value counted in quarters
Quarter == 4

RECURSIVE ProdOver(_, _)
\* math.prod of the values of the map r over the keys ks, as a fraction
ProdOver(r, ks) ==
    IF ks = {} THEN <<1, 1>>
    ELSE LET k == CHOOSE x \in ks : TRUE
             rest == ProdOver(r, ks \ {k})
         IN <<r[k] * rest[1], Quarter * rest[2]>>

\* a relevance that is 0 unless both dimensions are present
getrelevancyAllDimensions(e) ==
    IF DOMAIN e.relevance = {"content", "location"}
    THEN ProdOver(e.relevance, DOMAIN e.relevance) ELSE <<0, 1>>

\* Element.getrelevancy()
getrelevancy(e) == IF e.relevance = NoRelevance THEN <<0, 1>> ELSE ProdOver(e.relevance, DOMAIN e.relevance)

\* comparison of two fractions with positive denominators
FracEq(a, b) == a[1] * b[2] = b[1] * a[2]

FracGreater(a, b) == a[1] * b[2] > b[1] * a[2]

\* a comparison by relevance alone, without the path tie-breaks
ElementLtByRelevanceOnly(self, other) ==
    FracGreater(getrelevancy(self), getrelevancy(other))

\* Element.__lt__(self, other)
ElementLt(self, other) ==
    IF ~FracEq(getrelevancy(self), getrelevancy(other))
    THEN FracGreater(getrelevancy(self), getrelevancy(other))
    ELSE IF Len(self.xpath) # Len(other.xpath)
    THEN Len(self.xpath) < Len(other.xpath)
    ELSE StrLess(self.xpath, other.xpath)

RECURSIVE SortInto(_, _)
\* insertion of the head of rest into the sorted run, after every element it is
\* not less than
SortInto(run, rest) ==
    IF rest = <<>> THEN run
    ELSE LET insert(at) == SubSeq(run, 1, at - 1) \o <<Head(rest)>> \o SubSeq(run, at, Len(run))
             first(before) == IF before = {} THEN Len(run) + 1
                              ELSE CHOOSE k \in before : \A m \in before : k <= m
         IN SortInto(insert(first({k \in 1..Len(run) : ElementLt(Head(rest), run[k])})),
                     Tail(rest))

\* sorted(elements): the stable sort of Python, which compares with __lt__ only
Sorted(elements) == SortInto(<<>>, elements)

\* Element.getdetails()
getdetails(e) ==
    IF e.details = <<>> THEN ""
    ELSE Join(", ", [k \in 1..Len(e.details) |->
                       e.details[k][1] \o "='" \o e.details[k][2] \o "'"])

(***************************************************************************)
(* rank.py: keyword expansion.  The collaborators (alias index, stopwords, *)
(* lexical database) are data files outside the repository; the model      *)
(* gives them a small fixed content.                                       *)
(***************************************************************************)
\* read_props_index(): phrase -> aliases
index ==
    ("studied at" :> <<"educated at", "alma mater">>)
    @@ ("born in" :>
          <<"place of birth", "birthplace", "born in", "POB", "birth place", "location born",
            "born at", "birth location", "location of birth", "birth city", "city of birth",
            "town of birth", "birth town", "native of", "birth venue", "place born">>)

\* read_json(STOPWORD_PATH)
stopwords == <<"at", "of", "the", "in">>

\* en.synsets(word): each synset is [words, related], a word being the
\* sequence of its forms and a related synset the sequence of its words
Synsets(word) ==
    IF word = "studied"
    THEN << [words |-> << <<"study", "studied">>, <<"learn">> >>,
             related |-> << << <<"educated">>, <<"study">> >> >>] >>
    ELSE IF word = "born"
    THEN << [words |-> << <<"born">> >>,
             related |-> << << <<"natural">> >> >>],
            [words |-> << <<"natural">>, <<"innate">> >>,
             related |-> <<>>] >>
    ELSE <<>>

InSeq(s, x) == IndexOf(s, x) # 0

\* str.split(): the words between runs of whitespace
Words(s) == SelectSeq(SplitOn(s, " ", ""), LAMBDA w : w # "")

RECURSIVE AddForms(_, _, _)
\* lines 417-420 and 427-430: acc is [seen, results]; every form not yet in
\* result_keywords is appended with the tier
AddForms(acc, forms, tier) ==
    IF forms = <<>> THEN acc
    ELSE IF InSeq(acc.seen, Head(forms)) THEN AddForms(acc, Tail(forms), tier)
    ELSE AddForms([seen |-> Append(acc.seen, Head(forms)),
                   results |-> Append(acc.results, <<Head(forms), tier>>)],
                  Tail(forms), tier)

RECURSIVE AddRelated(_, _)
\* lines 425-430
AddRelated(acc, related) ==
    IF related = <<>> THEN acc
    ELSE AddRelated(AddForms(acc, Flatten(Head(related)), LOW), Tail(related))

RECURSIVE AddSynsets(_, _)
\* lines 409-430
AddSynsets(acc, synsets) ==
    IF synsets = <<>> THEN acc
    ELSE AddSynsets(AddRelated(AddForms(acc, Flatten(Head(synsets).words), HIGH),
                               Head(synsets).related),
                    Tail(synsets))

RECURSIVE ExpandAll(_, _)
\* lines 404-432
ExpandAll(acc, all_keywords) ==
    IF all_keywords = <<>> THEN acc
    ELSE ExpandAll(AddSynsets(acc, Synsets(Head(all_keywords))), Tail(all_keywords))

\* expand_keywords(keywords)
expand_keywords(keywords) ==
    LET kept(ws) == SelectSeq(ws, LAMBDA w : ~InSeq(stopwords, w))
        \* lines 379-392: the alias words of one keyword
        alias(keyword) ==
            IF keyword \notin DOMAIN index THEN <<>>
            ELSE kept(Flatten([k \in 1..Len(index[keyword]) |-> Words(index[keyword][k])]))
        aliases == Flatten([k \in 1..Len(keywords) |-> alias(keywords[k])])
        \* lines 395-401: the keyword and its words that are no stopwords
        all_keywords == Flatten([k \in 1..Len(keywords) |->
                                   <<keywords[k]>> \o kept(Words(keywords[k]))])
    IN SelectSeq(ExpandAll([seen |-> <<>>,
                            results |-> [k \in 1..Len(aliases) |-> <<aliases[k], HIGHEST>>]],
                           all_keywords).results,
                 LAMBDA kr : ~InSeq(stopwords, kr[1]))

(***************************************************************************)
(* rank.py: keyword selection and the relevance ranker                     *)
(***************************************************************************)
\* the number of keywords get_top_keywords keeps at least
TopK == 25

\* get_top_keywords(query, title)
get_top_keywords(query, ttl) ==
    LET entity_relevancy == IF ttl # None /\ Contains(Lower(ttl), Lower(query.entity))
                            THEN HIGH ELSE HIGHEST
        \* sorted(results, key=tier, reverse=True): stable, highest tier first
        sorted(results) == Flatten([t \in 1..4 |-> SelectSeq(results, LAMBDA kr : kr[2] = 5 - t)])
        count(k) == IF k > TopK THEN k ELSE TopK
        top(results) ==
            SubSeq(results, 1,
                   IF count(Len(SelectSeq(results, LAMBDA kr : kr[2] = HIGHEST))) < Len(results)
                   THEN count(Len(SelectSeq(results, LAMBDA kr : kr[2] = HIGHEST)))
                   ELSE Len(results))
    IN top(sorted(<< <<query.entity, entity_relevancy>> >>
                  \o (IF query.attribute # None THEN expand_keywords(<<query.attribute>>)
                      ELSE <<>>)))

\* tag_relevance_level, in the order of the dict
tag_relevance_level ==
    << <<"aside", LOW>>, <<"nav", LOW>>, <<"header", MEDIUM>>, <<"footer", MEDIUM>>,
       <<"article", HIGHEST>>, <<"section", HIGHEST>>, <<"main", HIGH>> >>

\* the tag that comes last in the dict decides
LocationByLastTag(xpath) ==
    LET hits == {k \in 1..Len(tag_relevance_level) : Contains(xpath, tag_relevance_level[k][1])}
    IN IF hits = {} THEN MEDIUM
       ELSE tag_relevance_level[CHOOSE k \in hits : \A m \in hits : k >= m][2]

\* calculate_location_relevance(xpath)
calculate_location_relevance(xpath) ==
    LET hits == {k \in 1..Len(tag_relevance_level) : Contains(xpath, tag_relevance_level[k][1])}
    IN IF hits = {} THEN MEDIUM
       ELSE tag_relevance_level[CHOOSE k \in hits : \A m \in hits : k <= m][2]

RECURSIVE MatchFrom(_, _, _, _)
\* whether the pattern of a keyword, from its k-th character, matches s at
\* pos: a space of the keyword stands for one or more spaces (" +")
MatchFrom(s, pos, kw, k) ==
    IF k > Len(kw) THEN TRUE
    ELSE IF Ch(kw, k) = " "
    THEN \E n \in 1..(Len(s) - pos + 1) :
            /\ \A m \in pos..(pos + n - 1) : Ch(s, m) = " "
            /\ MatchFrom(s, pos + n, kw, k + 1)
    ELSE pos <= Len(s) /\ Ch(s, pos) = Ch(kw, k) /\ MatchFrom(s, pos + 1, kw, k + 1)

\* get_xpath_queries(keywords): the non-empty keyword groups, highest tier first
get_xpath_queries(keywords) ==
    LET group(t) == {keywords[k][1] : k \in {m \in 1..Len(keywords) : keywords[m][2] = t}}
    IN SelectSeq([t \in 1..4 |-> [group |-> group(5 - t), relevance |-> 5 - t]],
                 LAMBDA g : g.group # {})

\* html.xpath(xpath_query): the elements whose first text node matches one of
\* the keywords of the group, in document order
XPathKeywords(ns, group) ==
    LET \* re:test(text, keyword with " " replaced by " +", 'i'), both lowered
        test(t, kw) == /\ Len(kw) <= Len(t)
                       /\ \E pos \in 1..(Len(t) + 1) : MatchFrom(t, pos, kw, 1)
    IN SelectSeq(AllElements(ns),
                 LAMBDA j : \E kw \in group : test(Lower(FirstText(ns, j)), Lower(kw)))

RECURSIVE Climb(_, _, _, _)
\* lines 208-217: the element whose text is long enough, 0 when the climb
\* leaves the tree
Climb(ns, e, minimum, addr) ==
    IF Len(get_text_content(ns, e, TRUE, addr)) >= minimum THEN e
    ELSE IF ns[e].parent = 0 THEN 0
    ELSE Climb(ns, ns[e].parent, minimum, addr)

\* Element(xpath, html_element, content, relevance)
Element(xpath, e, content, relevance) ==
    [xpath |-> xpath, html_element |-> e, content |-> content, details |-> <<>>,
     relevance |-> relevance]

RECURSIVE RankMatches(_, _, _, _, _)
\* lines 207-235 for the elements of one query; st is [ns, results, raised]
RankMatches(st, elems, minimum, content_relevancy, addr) ==
    IF elems = <<>> \/ st.raised THEN st
    ELSE LET found(e) ==
                 IF e = 0 THEN [st EXCEPT !.raised = TRUE]
                 ELSE [ns |-> DropTree(st.ns, e),
                       results |-> Append(st.results,
                           Element(GetPath(st.ns, e), e, get_text_content(st.ns, e, TRUE, addr),
                                   [content |-> content_relevancy,
                                    location |-> calculate_location_relevance(GetPath(st.ns, e))])),
                       raised |-> FALSE]
         IN RankMatches(found(Climb(st.ns, Head(elems), minimum, addr)),
                        Tail(elems), minimum, content_relevancy, addr)

RECURSIVE RankQueries(_, _, _)
\* lines 191-240: the queries in tier order against the live tree; the minimum
\* length is len(max(keyword_group, key=len))
RankQueries(st, queries, addr) ==
    IF queries = <<>> \/ st.raised THEN st
    ELSE RankQueries(
            RankMatches(st, XPathKeywords(st.ns, Head(queries).group),
                        CHOOSE n \in {Len(kw) : kw \in Head(queries).group} :
                            \A kw \in Head(queries).group : Len(kw) <= n,
                        Head(queries).relevance, addr),
            Tail(queries), addr)

\* rank_elements(data, keywords): [ns, results, raised]; getpath(None) raises
\* when a climb leaves the tree
rank_elements(ns, keywords, addr) ==
    [RankQueries([ns |-> ns, results |-> <<>>, raised |-> FALSE],
                 get_xpath_queries(keywords), addr)
        EXCEPT !.results = Sorted(@)]

\* the first keyword that occurs in the lowered content, 0 when there is none
FirstKeyword(action, keywords) ==
    LET hits == {k \in 1..Len(keywords) :
                   action.content # None /\ Contains(Lower(action.content), keywords[k][1])}
    IN IF hits = {} THEN 0 ELSE CHOOSE k \in hits : \A m \in hits : k <= m

\* the search rule with a case-sensitive test of the details
RankActionCaseSensitive(action, keywords) ==
    IF action.type = "INPUT" /\ Contains(getdetails(action), "search")
    THEN [action EXCEPT !.relevance = [content |-> HIGHEST]]
    ELSE IF FirstKeyword(action, keywords) # 0
    THEN [action EXCEPT !.relevance =
            [content |-> keywords[FirstKeyword(action, keywords)][2],
             location |-> calculate_location_relevance(action.modified_xpath)]]
    ELSE IF action.relevance = NoRelevance
    THEN [action EXCEPT !.relevance =
            [content |-> LOW,
             location |-> calculate_location_relevance(action.modified_xpath)]]
    ELSE action

\* rank_action_elements, lines 266-295: the relevance given to one action
RankAction(action, keywords) ==
    IF action.type = "INPUT" /\ Contains(Lower(getdetails(action)), "search")
    THEN [action EXCEPT !.relevance = [content |-> HIGHEST]]
    ELSE IF FirstKeyword(action, keywords) # 0
    THEN [action EXCEPT !.relevance =
            [content |-> keywords[FirstKeyword(action, keywords)][2],
             location |-> calculate_location_relevance(action.modified_xpath)]]
    ELSE IF action.relevance = NoRelevance
    THEN [action EXCEPT !.relevance =
            [content |-> LOW,
             location |-> calculate_location_relevance(action.modified_xpath)]]
    ELSE action

\* ids that count from 0
NumberActionsFromZero(result) == [k \in 1..Len(result) |-> [result[k] EXCEPT !.id = k - 1]]

\* lines 299-303: the sorted actions with their ids
NumberActions(result) == [k \in 1..Len(result) |-> [result[k] EXCEPT !.id = k]]

\* rank_action_elements(data, keywords): the list it returns
rank_action_elements(acts, keywords) ==
    NumberActions(Sorted([k \in 1..Len(acts) |-> RankAction(acts[k], keywords)]))

\* the relation queries handed to rank()
Queries ==
    { [entity |-> "Alex", attribute |-> "studied at"],
      [entity |-> "Search", attribute |-> None] }

\* rank(data, query): a call on the parsed data; rank_action_elements is not
\* reached when rank_elements raises.  It leaves in data.actions the same
\* objects in their old order, with the relevance and id it has given them.
Rank(queries) ==
    /\ pc = "parsed"
    /\ pass = 1
    /\ Len(rankLog) < MaxRankCalls
    /\ \E query \in queries, addr \in AddressChoices(nodes) :
          \E keywords \in {get_top_keywords(query, title)} :
             \E st \in {rank_elements(nodes, keywords, addr)} :
                \E result \in {IF st.raised THEN <<>>
                                ELSE rank_action_elements(actions, keywords)} :
                   /\ nodes' = st.ns
                   /\ actions' =
                         IF st.raised THEN actions
                         ELSE [k \in 1..Len(actions) |->
                                 result[CHOOSE m \in 1..Len(result) :
                                          result[m].html_element = actions[k].html_element]]
                   /\ rankLog' = Append(rankLog,
                                    [query |-> query, raised |-> st.raised,
                                     keywords |-> keywords,
                                     elements |-> IF st.raised THEN <<>> ELSE st.results,
                                     action_elements |-> result])
    /\ UNCHANGED <<all_rules, title, pc, pass, firstOut, flagged, pool, ranked, sideVars>>

Next ==
    \/ ParseHead
    \/ FlagNoise
    \/ FlagAction
    \/ RemoveNoise
    \/ ReplaceAriaRoles
    \/ GetActionElements
    \/ SimplifyHtml
    \/ Reapply
    \/ Rank(Queries)

Spec == Init /\ [][Next]_vars

(***************************************************************************)
(* Ordering of elements on its own: sorted() and rank_action_elements      *)
(* applied to lists of elements whose relevance maps and paths are drawn   *)
(* from bounded sets                                                       *)
(***************************************************************************)
\* number of elements of a list to order
MaxPool == 3

\* a relevance map without any dimension
EmptyRelevance == [d \in {} |-> 0]

\* LINK actions as get_action_elements builds them, with a relevance that is
\* None, an empty map, or a map of one or two dimensions, and INPUT actions
\* that mention search in a detail, one not yet ranked and one ranked before
PoolElements ==
    { [ActionElement(x, x, 0, "LINK", "about alex", <<>>) EXCEPT !.relevance = r] :
        x \in {"/html/a", "/html/p", "/html/body"},
        r \in { NoRelevance, EmptyRelevance, [content |-> LOW],
                [content |-> MEDIUM, location |-> HIGHEST] } }
    \cup
    { ActionElement("/html/input", "/html/input", 0, "INPUT", None,
                    << <<"type", "search">> >>),
      [ActionElement("/html/input", "/html/input", 0, "INPUT", None,
                     << <<"placeholder", "Search">> >>)
          EXCEPT !.relevance = [content |-> LOW, location |-> LOW]] }

\* the list to order: at most MaxPool elements
InitOrder ==
    /\ pool \in UNION { [1..n -> PoolElements] : n \in 0..MaxPool }
    /\ ranked = <<>>
    /\ pc = "order"
    /\ nodes = <<>>
    /\ all_rules = None
    /\ title = None
    /\ actions = <<>>
    /\ pass = 1
    /\ firstOut = None
    /\ rankLog = <<>>
    /\ flagged = {}
    /\ SideInit

\* rank_elements, line 242: return sorted(results)
SortElements ==
    /\ pc = "order"
    /\ ranked' = Sorted(pool)
    /\ pc' = "sorted"
    /\ UNCHANGED <<nodes, all_rules, title, actions, pass, firstOut, rankLog, flagged, pool, sideVars>>

\* rank_action_elements(data, keywords) on the list as data.actions
RankActions ==
    /\ pc = "order"
    /\ \E keywords \in { <<>>, << <<"alex", HIGH>> >> } :
          ranked' = rank_action_elements(pool, keywords)
    /\ pc' = "ranked"
    /\ UNCHANGED <<nodes, all_rules, title, actions, pass, firstOut, rankLog, flagged, pool, sideVars>>

NextOrder ==
    \/ SortElements
    \/ RankActions

SpecOrder == InitOrder /\ [][NextOrder]_vars

(***************************************************************************)
(* parse() and rank() on documents whose text mentions the entity of a     *)
(* query: at most MaxBlocks blocks of FragmentPalette in the body          *)
(***************************************************************************)
InitFragments ==
    /\ nodes \in {MkNodes(Preorder(kind, bs)) :
                     kind \in {"plain", "styled"},
                     bs \in UNION {[1..k -> (Len(Palette) + 1)..(Len(Palette) + Len(FragmentPalette))] :
                                     k \in 1..MaxBlocks}}
    /\ all_rules = None
    /\ title = None
    /\ actions = <<>>
    /\ pc = "parse"
    /\ pass = 1
    /\ firstOut = None
    /\ rankLog = <<>>
    /\ flagged = {}
    /\ pool = <<>>
    /\ ranked = <<>>
    /\ SideInit

\* the pipeline, and rank() with the queries of Queries or with a query whose
\* attribute has long aliases
NextFragments ==
    \/ ParseHead
    \/ FlagNoise
    \/ FlagAction
    \/ RemoveNoise
    \/ ReplaceAriaRoles
    \/ GetActionElements
    \/ SimplifyHtml
    \/ Reapply
    \/ Rank(Queries \cup {[entity |-> "Alex", attribute |-> "born in"]})

SpecFragments == InitFragments /\ [][NextFragments]_vars

(***************************************************************************)
(* The style pass of flag_noise_elements, lines 169-196: one task per      *)
(* selector is submitted to a ThreadPoolExecutor, whose workers run the    *)
(* tasks at the same time.  A task evaluates its selector and then sets    *)
(* the flag of every element of every matched subtree, one element at a    *)
(* time; a worker may be preempted between two of these writes.            *)
(***************************************************************************)
\* the state at line 182: the comments are dropped and the attribute pass is
\* done on a document with the style element; every task is submitted.
\* calls[t] holds the elements task t has still to flag
InitTasks ==
    /\ \E bs \in UNION {[1..k -> (Len(Palette) + 1)..(Len(Palette) + Len(FragmentPalette))] :
                          k \in 1..MaxBlocks} :
          \E d \in {MkNodes(Preorder("styled", bs))} :
             /\ nodes = FlagByAttributes(
                           DropTrees(d, SelectSeq(Iter(d, Root), LAMBDA j : d[j].tag = COMMENT)),
                           noise_attributes)
             /\ all_rules = parse_css_to_ast(d)
             /\ tpc = [t \in 1..Len(FilterSelectorsOfPairs(parse_css_to_ast(d), noise_styles))
                         |-> "submitted"]
             /\ calls = [t \in 1..Len(FilterSelectorsOfPairs(parse_css_to_ast(d), noise_styles))
                           |-> <<>>]
    /\ title = "About Alex"
    /\ actions = <<>>
    /\ pc = "flag_styles"
    /\ pass = 1
    /\ firstOut = None
    /\ rankLog = <<>>
    /\ flagged = {}
    /\ pool = <<>>
    /\ ranked = <<>>
    /\ globals = NoGlobals
    /\ loads = [en |-> 0, index |-> 0, stopwords |-> 0]
    /\ relation = None
    /\ top_keywords = <<>>

\* flag_elements_with_selector, line 173: elements = select(html); the task
\* then enters its loop over the elements and their subtrees
StartTask(t) ==
    /\ pc = "flag_styles"
    /\ tpc[t] = "submitted"
    /\ \E todo \in {Flatten([k \in 1..Len(Select(nodes, FilterSelectorsOfPairs(all_rules, noise_styles)[t]))
                                |-> Iter(nodes, Select(nodes, FilterSelectorsOfPairs(all_rules, noise_styles)[t])[k])])} :
          /\ calls' = [calls EXCEPT ![t] = todo]
          /\ tpc' = [tpc EXCEPT ![t] = IF todo = <<>> THEN "returned" ELSE "flagging"]
    /\ UNCHANGED <<nodes, all_rules, title, actions, pc, pass, firstOut, rankLog, flagged,
                   pool, ranked, globals, loads, relation, top_keywords>>

\* flag_elements_with_selector, lines 175-178: one child.set(FLAG_ATTRIBUTE_TYPE,
\* FLAG_VALUE_NOISE); the task returns after its last write
FlagChild(t) ==
    /\ pc = "flag_styles"
    /\ tpc[t] = "flagging"
    /\ nodes' = [nodes EXCEPT ![Head(calls[t])].attrs =
                     SetAttr(@, FLAG_ATTRIBUTE_TYPE, FLAG_VALUE_NOISE)]
    /\ calls' = [calls EXCEPT ![t] = Tail(@)]
    /\ tpc' = [tpc EXCEPT ![t] = IF Tail(calls[t]) = <<>> THEN "returned" ELSE "flagging"]
    /\ UNCHANGED <<all_rules, title, actions, pc, pass, firstOut, rankLog, flagged,
                   pool, ranked, globals, loads, relation, top_keywords>>

NextTasks ==
    \/ \E t \in DOMAIN tpc : StartTask(t)
    \/ \E t \in DOMAIN tpc : FlagChild(t)

SpecTasks == InitTasks /\ [][NextTasks]_vars

(***************************************************************************)
(* The loop of drop_tag_from_xpath, one iteration at a time.  calls holds   *)
(* the frame of the call: the selector and prev_elements_count (-1 for     *)
(* None).  The loop runs on the thread of parse(), which nothing suspends. *)
(***************************************************************************)
InitDrop ==
    /\ nodes \in Documents
    /\ calls \in {<<[xpath |-> sel, prev_elements_count |-> -1]>> : sel \in {"empty", "one-child"}}
    /\ pc = "drop_loop"
    /\ all_rules = None
    /\ title = None
    /\ actions = <<>>
    /\ pass = 1
    /\ firstOut = None
    /\ rankLog = <<>>
    /\ flagged = {}
    /\ pool = <<>>
    /\ ranked = <<>>
    /\ globals = NoGlobals
    /\ loads = [en |-> 0, index |-> 0, stopwords |-> 0]
    /\ tpc = <<>>
    /\ relation = None
    /\ top_keywords = <<>>

\* the loop ends only when no element matches, and an element without a
\* parent is left as it is
DropUntilNoMatch ==
    /\ pc = "drop_loop"
    /\ \E elements \in {XPathOf(nodes, calls[1].xpath)} :
          IF Len(elements) = 0
          THEN pc' = "returned" /\ UNCHANGED <<nodes, calls>>
          ELSE /\ nodes' = drop_tag(nodes, SelectSeq(elements, LAMBDA j : nodes[j].parent # 0))
               /\ calls' = <<[calls[1] EXCEPT !.prev_elements_count = Len(elements)]>>
               /\ pc' = pc
    /\ UNCHANGED <<all_rules, title, actions, pass, firstOut, rankLog, flagged, pool, ranked,
                   globals, loads, tpc, relation, top_keywords>>

\* drop_tag_from_xpath, lines 698-707: one turn of `while True`
DropIteration ==
    /\ pc = "drop_loop"
    /\ \E elements \in {XPathOf(nodes, calls[1].xpath)} :
          IF calls[1].prev_elements_count = Len(elements)
          THEN pc' = "returned" /\ UNCHANGED <<nodes, calls>>
          ELSE /\ nodes' = drop_tag(nodes, elements)
               /\ calls' = <<[calls[1] EXCEPT !.prev_elements_count = Len(elements)]>>
               /\ pc' = pc
    /\ UNCHANGED <<all_rules, title, actions, pass, firstOut, rankLog, flagged, pool, ranked,
                   globals, loads, tpc, relation, top_keywords>>

SpecDrop == InitDrop /\ [][DropIteration]_vars /\ WF_vars(DropIteration)

(***************************************************************************)
(* Keyword selection on its own: get_top_keywords and expand_keywords      *)
(* applied to queries and titles drawn from bounded sets                   *)
(***************************************************************************)
\* a RelationQuery (dtos.py, lines 321-338: entity and attribute are not
\* validated) and the title parse() found, None when the page has none
InitKeywords ==
    /\ relation \in [entity : {"Alex", "alex", "Bard College", "", None},
                      attribute : {None, "studied at", "born in", "alma mater"}]
    /\ title \in {None, "About Alex", "Bard College", "Search"}
    /\ top_keywords = <<>>
    /\ pc = "keywords"
    /\ nodes = <<>>
    /\ all_rules = None
    /\ actions = <<>>
    /\ pass = 1
    /\ firstOut = None
    /\ rankLog = <<>>
    /\ flagged = {}
    /\ pool = <<>>
    /\ ranked = <<>>
    /\ globals = NoGlobals
    /\ loads = [en |-> 0, index |-> 0, stopwords |-> 0]
    /\ tpc = <<>>
    /\ calls = <<>>

\* get_top_keywords(query, title), lines 85-106.  With a title, line 90
\* evaluates query.entity.lower(), which raises AttributeError for an entity
\* that is None; without a title the entity is not looked at
GetTopKeywords ==
    /\ pc = "keywords"
    /\ IF relation.entity = None /\ title # None
       THEN pc' = "raised" /\ UNCHANGED top_keywords
       ELSE pc' = "selected" /\ top_keywords' = get_top_keywords(relation, title)
    /\ UNCHANGED <<nodes, all_rules, title, actions, pass, firstOut, rankLog, flagged,
                   pool, ranked, globals, loads, tpc, calls, relation>>

\* expand_keywords([query.attribute]) as get_top_keywords calls it at line 95
ExpandKeywords ==
    /\ pc = "keywords"
    /\ relation.attribute # None
    /\ top_keywords' = expand_keywords(<<relation.attribute>>)
    /\ pc' = "expanded"
    /\ UNCHANGED <<nodes, all_rules, title, actions, pass, firstOut, rankLog, flagged,
                   pool, ranked, globals, loads, tpc, calls, relation>>

NextKeywords ==
    \/ GetTopKeywords
    \/ ExpandKeywords

SpecKeywords == InitKeywords /\ [][NextKeywords]_vars

(***************************************************************************)
(* Two parse() calls in flight at the same time.  The tree, the title and  *)
(* the actions are locals of a call; all_rules is a global of parse.py     *)
(* (lines 31 and 65).  One call runs and the other is suspended between    *)
(* two steps of parse(); a switch suspends the running call and resumes    *)
(* the other.                                                              *)
(***************************************************************************)
\* the running call parses any document, the other call a document with the
\* block <div class="big box"><b class="ptr">..</b></div>, with or without
\* the style element that hides .box
InitShared ==
    /\ nodes \in Documents
    /\ \E kind \in {"plain", "styled"} :
          calls = << [nodes |-> MkNodes(Preorder(kind, <<11>>)), title |-> None,
                      actions |-> <<>>, pc |-> "parse", flagged |-> {}] >>
    /\ all_rules = None
    /\ title = None
    /\ actions = <<>>
    /\ pc = "parse"
    /\ pass = 1
    /\ firstOut = None
    /\ rankLog = <<>>
    /\ flagged = {}
    /\ pool = <<>>
    /\ ranked = <<>>
    /\ globals = NoGlobals
    /\ loads = [en |-> 0, index |-> 0, stopwords |-> 0]
    /\ tpc = <<>>
    /\ relation = None
    /\ top_keywords = <<>>

\* the scheduler suspends the running parse() call between two of its steps
\* and resumes the other call: the locals are exchanged, the global all_rules
\* is not
Switch ==
    /\ calls # <<>>
    /\ nodes' = calls[1].nodes
    /\ title' = calls[1].title
    /\ actions' = calls[1].actions
    /\ pc' = calls[1].pc
    /\ flagged' = calls[1].flagged
    /\ calls' = << [nodes |-> nodes, title |-> title, actions |-> actions, pc |-> pc,
                    flagged |-> flagged] >>
    /\ UNCHANGED <<all_rules, pass, firstOut, rankLog, pool, ranked, globals, loads, tpc,
                   relation, top_keywords>>

\* parse(), lines 58-74, of the running call, or a switch to the other call
NextShared ==
    \/ ParseHead
    \/ FlagNoise
    \/ FlagAction
    \/ RemoveNoise
    \/ ReplaceAriaRoles
    \/ GetActionElements
    \/ SimplifyHtml
    \/ Switch

SpecShared == InitShared /\ [][NextShared]_vars

(***************************************************************************)
(* Lazy initialisation of the collaborators of expand_keywords: several    *)
(* threads make their first call at the same time.  A thread may be        *)
(* preempted between the test of a global and the assignment to it; a      *)
(* load may fail.                                                          *)
(***************************************************************************)
\* number of threads that call expand_keywords
MaxThreads == 2

\* the state after the import of rank.py: the three globals are None and every
\* thread is about to call expand_keywords
InitLazy ==
    /\ globals = NoGlobals
    /\ loads = [en |-> 0, index |-> 0, stopwords |-> 0]
    /\ tpc = [t \in 1..MaxThreads |-> "check_en"]
    /\ pc = "expand"
    /\ nodes = <<>>
    /\ all_rules = None
    /\ title = None
    /\ actions = <<>>
    /\ pass = 1
    /\ firstOut = None
    /\ rankLog = <<>>
    /\ flagged = {}
    /\ pool = <<>>
    /\ ranked = <<>>
    /\ calls = <<>>
    /\ relation = None
    /\ top_keywords = <<>>

\* init_expansion, line 337: if en is None
CheckEn(t) ==
    /\ tpc[t] = "check_en"
    /\ tpc' = [tpc EXCEPT ![t] = IF globals.en = None THEN "load_en" ELSE "check_index"]
    /\ UNCHANGED <<globals, loads>>
    /\ UNCHANGED <<nodes, all_rules, title, actions, pc, pass, firstOut, rankLog, flagged,
                   pool, ranked, calls, relation, top_keywords>>

\* init_expansion, lines 339-343: wn.download and wn.Wordnet; the download
\* raises when the database cannot be fetched, and the exception leaves
\* init_expansion and expand_keywords
LoadEn(t) ==
    /\ tpc[t] = "load_en"
    /\ \E outcome \in {"loaded", "raise"} :
          IF outcome = "raise"
          THEN /\ tpc' = [tpc EXCEPT ![t] = "raised"]
               /\ UNCHANGED <<globals, loads>>
          ELSE /\ globals' = [globals EXCEPT !.en = "loaded"]
               /\ loads' = [loads EXCEPT !.en = @ + 1]
               /\ tpc' = [tpc EXCEPT ![t] = "check_index"]
    /\ UNCHANGED <<nodes, all_rules, title, actions, pc, pass, firstOut, rankLog, flagged,
                   pool, ranked, calls, relation, top_keywords>>

\* init_expansion, line 346: if index is None
CheckIndex(t) ==
    /\ tpc[t] = "check_index"
    /\ tpc' = [tpc EXCEPT ![t] = IF globals.index = None THEN "load_index" ELSE "check_stopwords"]
    /\ UNCHANGED <<globals, loads>>
    /\ UNCHANGED <<nodes, all_rules, title, actions, pc, pass, firstOut, rankLog, flagged,
                   pool, ranked, calls, relation, top_keywords>>

\* init_expansion, line 347: index = read_props_index().  read_props_index
\* returns the index, returns None when the download of the properties
\* fails (the RuntimeError is caught in utils/props.py, lines 31-33), or lets
\* any other exception through (a file that is not JSON, a connection error)
LoadIndex(t) ==
    /\ tpc[t] = "load_index"
    /\ \E outcome \in {"loaded", None, "raise"} :
          IF outcome = "raise"
          THEN /\ tpc' = [tpc EXCEPT ![t] = "raised"]
               /\ UNCHANGED <<globals, loads>>
          ELSE /\ globals' = [globals EXCEPT !.index = outcome]
               /\ loads' = [loads EXCEPT !.index = IF outcome = None THEN @ ELSE @ + 1]
               /\ tpc' = [tpc EXCEPT ![t] = "check_stopwords"]
    /\ UNCHANGED <<nodes, all_rules, title, actions, pc, pass, firstOut, rankLog, flagged,
                   pool, ranked, calls, relation, top_keywords>>

\* init_expansion, line 350: if stopwords is None
CheckStopwords(t) ==
    /\ tpc[t] = "check_stopwords"
    /\ tpc' = [tpc EXCEPT ![t] = IF globals.stopwords = None THEN "load_stopwords" ELSE "guard"]
    /\ UNCHANGED <<globals, loads>>
    /\ UNCHANGED <<nodes, all_rules, title, actions, pc, pass, firstOut, rankLog, flagged,
                   pool, ranked, calls, relation, top_keywords>>

\* init_expansion, line 351: stopwords = read_json(STOPWORD_PATH); open()
\* raises when the file is missing
LoadStopwords(t) ==
    /\ tpc[t] = "load_stopwords"
    /\ \E outcome \in {"loaded", "raise"} :
          IF outcome = "raise"
          THEN /\ tpc' = [tpc EXCEPT ![t] = "raised"]
               /\ UNCHANGED <<globals, loads>>
          ELSE /\ globals' = [globals EXCEPT !.stopwords = "loaded"]
               /\ loads' = [loads EXCEPT !.stopwords = @ + 1]
               /\ tpc' = [tpc EXCEPT ![t] = "guard"]
    /\ UNCHANGED <<nodes, all_rules, title, actions, pc, pass, firstOut, rankLog, flagged,
                   pool, ranked, calls, relation, top_keywords>>

\* expand_keywords, lines 372-373: RuntimeError when a global is still None;
\* otherwise the caller goes on to expand its keywords
Guard(t) ==
    /\ tpc[t] = "guard"
    /\ tpc' = [tpc EXCEPT ![t] =
                  IF globals.en = None \/ globals.index = None \/ globals.stopwords = None
                  THEN "raised" ELSE "expanding"]
    /\ UNCHANGED <<globals, loads>>
    /\ UNCHANGED <<nodes, all_rules, title, actions, pc, pass, firstOut, rankLog, flagged,
                   pool, ranked, calls, relation, top_keywords>>

NextLazy ==
    \/ \E t \in 1..MaxThreads : CheckEn(t)
    \/ \E t \in 1..MaxThreads : LoadEn(t)
    \/ \E t \in 1..MaxThreads : CheckIndex(t)
    \/ \E t \in 1..MaxThreads : LoadIndex(t)
    \/ \E t \in 1..MaxThreads : CheckStopwords(t)
    \/ \E t \in 1..MaxThreads : LoadStopwords(t)
    \/ \E t \in 1..MaxThreads : Guard(t)

SpecLazy == InitLazy /\ [][NextLazy]_vars

(***************************************************************************)
(* Properties                                                              *)
(***************************************************************************)
\* C1: no element that flag_noise_elements has flagged noise (the document
\* root included) is reachable from the root of the tree parse() returns
C1_NoiseNeverSurvives == pc = "parsed" => flagged \cap Reachable(nodes) = {}

\* the elements of a tree with their text: tag, text, tail and children of
\* every element reachable from the root (the tail of the root lies outside)
TreeOf(ns) ==
    [i \in Reachable(ns) |->
        <<ns[i].tag, ns[i].text, IF i = Root THEN "" ELSE ns[i].tail, ns[i].kids>>]

\* C2: the cleaning pipeline applied to a tree it has returned gives a tree
\* with the same elements and the same text
C2_PipelineIdempotent == (pc = "parsed" /\ pass >= 2) => TreeOf(nodes) = TreeOf(firstOut)

\* what a rank() call has returned, without the element handles
OutputOf(entry) ==
    [raised |-> entry.raised,
     elements |-> [k \in 1..Len(entry.elements) |->
                     <<entry.elements[k].xpath, entry.elements[k].content,
                       entry.elements[k].relevance>>],
     action_elements |-> [k \in 1..Len(entry.action_elements) |->
                     <<entry.action_elements[k].id, entry.action_elements[k].type,
                       entry.action_elements[k].xpath, entry.action_elements[k].content,
                       entry.action_elements[k].details,
                       entry.action_elements[k].relevance>>]]

\* C3: two rank() calls with the same query on the same parsed document,
\* the second on the object the first has ranked, return the same fragments
\* and the same actions with the same ids
C3_RankDeterministic ==
    \A i, j \in 1..Len(rankLog) :
        rankLog[i].query = rankLog[j].query => OutputOf(rankLog[i]) = OutputOf(rankLog[j])

\* C4: in the list rank_action_elements returns the id of every action is its
\* 1-based position, id 1 is the action that sorts first, the ids of the
\* actions of the document are exactly 1..N, and before ranking every id is -1
C4_IdsArePositions ==
    /\ rankLog = <<>> => \A k \in 1..Len(actions) : actions[k].id = -1
    /\ \A i \in 1..Len(rankLog) :
          LET r == rankLog[i].action_elements
          IN /\ \A k \in 1..Len(r) : r[k].id = k /\ ~ElementLt(r[k], r[1])
             /\ ~rankLog[i].raised => Len(r) = Len(actions)
    /\ (rankLog # <<>> /\ ~rankLog[Len(rankLog)].raised)
          => {actions[k].id : k \in 1..Len(actions)} = 1..Len(actions)

C4_Witness ==
    \E i \in 1..Len(rankLog) :
        /\ Len(rankLog[i].action_elements) >= 2
        /\ rankLog[i].action_elements[2].id = 2
        /\ \E k \in 1..Len(actions) : actions[k].id = 2

C6_PartialMapIsZero ==
    \A k \in 1..Len(ranked) :
        DOMAIN ranked[k].relevance = {"content"} => FracEq(getrelevancy(ranked[k]), <<0, 1>>)

\* C6: an element without a relevance has total relevance 0; an element whose
\* map holds the content dimension alone, as a search input, has the tier of
\* its content as total relevance
C6_PartialMapIsProduct ==
    \A k \in 1..Len(ranked) :
        /\ ranked[k].relevance = NoRelevance => FracEq(getrelevancy(ranked[k]), <<0, 1>>)
        /\ DOMAIN ranked[k].relevance = {"content"} =>
              FracEq(getrelevancy(ranked[k]), <<ranked[k].relevance.content, Quarter>>)

C6_Witness ==
    /\ pc = "ranked"
    /\ \E k \in 1..Len(ranked) :
          /\ ranked[k].type = "INPUT"
          /\ ranked[k].relevance = [content |-> HIGHEST]
    /\ \E k \in 1..Len(ranked) : ranked[k].relevance = [content |-> LOW]

\* a may stand before b: higher relevance, or equal relevance and a shorter
\* path, or equal relevance and length and a path that is not greater
Before(a, b) ==
    \/ FracGreater(getrelevancy(a), getrelevancy(b))
    \/ /\ FracEq(getrelevancy(a), getrelevancy(b))
       /\ Len(a.xpath) < Len(b.xpath)
    \/ /\ FracEq(getrelevancy(a), getrelevancy(b))
       /\ Len(a.xpath) = Len(b.xpath)
       /\ (a.xpath = b.xpath \/ StrLess(a.xpath, b.xpath))

\* C7: in a list returned by sorted() in rank_elements or by
\* rank_action_elements every element may stand before the ones that follow
\* it, and __lt__ is irreflexive, transitive and decides every pair of
\* elements with distinct paths one way
C7_SortedTotalOrder ==
    /\ \A i, j \in 1..Len(ranked) :
          /\ i < j => Before(ranked[i], ranked[j])
          /\ ~ElementLt(ranked[i], ranked[i])
          /\ ranked[i].xpath # ranked[j].xpath =>
                (ElementLt(ranked[i], ranked[j]) # ElementLt(ranked[j], ranked[i]))
    /\ pc = "sorted" =>
          \A i, j, k \in 1..Len(ranked) :
              (ElementLt(ranked[i], ranked[j]) /\ ElementLt(ranked[j], ranked[k]))
                  => ElementLt(ranked[i], ranked[k])

C7_Witness ==
    /\ pc = "sorted"
    /\ Len(ranked) = 3
    /\ ranked # pool
    /\ FracEq(getrelevancy(ranked[1]), getrelevancy(ranked[2]))
    /\ Len(ranked[1].xpath) = Len(ranked[2].xpath)
    /\ ranked[1].xpath # ranked[2].xpath
    /\ FracGreater(getrelevancy(ranked[2]), getrelevancy(ranked[3]))

\* a detail named by the search rule holds "search", in any case
MentionsSearch(a) ==
    \E k \in 1..Len(a.details) :
        /\ a.details[k][1] \in {"type", "placeholder", "name", "aria-label", "label"}
        /\ Contains(Lower(a.details[k][2]), "search")

\* C8: an INPUT action whose details mention search leaves
\* rank_action_elements with content relevance HIGHEST, for every keyword
\* list and every relevance it carried before
C8_SearchInputHighest ==
    pc = "ranked" =>
        /\ Len(ranked) = Len(pool)
        /\ \A k \in 1..Len(ranked) :
              (ranked[k].type = "INPUT" /\ MentionsSearch(ranked[k])) =>
                  /\ "content" \in DOMAIN ranked[k].relevance
                  /\ ranked[k].relevance.content = HIGHEST

C8_Witness ==
    /\ pc = "ranked"
    /\ \E k \in 1..Len(pool) :
          /\ pool[k].type = "INPUT"
          /\ pool[k].details = << <<"placeholder", "Search">> >>
          /\ pool[k].relevance = [content |-> LOW, location |-> LOW]
    /\ \A k \in 1..Len(ranked) :
          ranked[k].type = "INPUT" => ranked[k].relevance = [content |-> HIGHEST]

\* the text the rows of a table stand for: one line per row in document
\* order, the texts of the cells of the row joined with " | "
ExpectedTableText(ns, t) ==
    LET rows == Descendants(ns, t, "tr")
        line(r) == Join(" | ", [k \in 1..Len(ns[r].kids) |->
                                  Strip(TextContent(ns, ns[r].kids[k]))])
    IN "[table]" \o NL \o Join(NL, [k \in 1..Len(rows) |-> line(rows[k])])

\* the tables of the tree that hold no nested table
FlatTables(ns) ==
    {t \in Reachable(ns) : ns[t].tag = "table" /\ Descendants(ns, t, "table") = <<>>}

\* a table without caption whose rows are under neither thead nor tfoot
PlainRows(ns, t) ==
    /\ Descendants(ns, t, "caption") = <<>>
    /\ Descendants(ns, t, "thead") = <<>>
    /\ Descendants(ns, t, "tfoot") = <<>>

\* simplify_html has left t as a childless node of the tree, marked
\* simplified, with the given text
FlattenedTo(ns, t, text) ==
    /\ t \in Reachable(ns)
    /\ ns[t].kids = <<>>
    /\ ns[t].text = text
    /\ Get(ns[t].attrs, FLAG_ATTRIBUTE_TYPE, "") = FLAG_VALUE_SIMPLIFIED

HiddenByAttribute(ns, i) ==
    \/ \E w \in {"hidden", "invisible", "none"} : Contains(Get(ns[i].attrs, "class", ""), w)
    \/ \E d \in {"display:none", "display: none", "visibility:hidden", "visibility: hidden"} :
          Contains(Get(ns[i].attrs, "style", ""), d)

\* C10: flag_noise_elements flags every element hidden by its class or its
\* inline style, and all its descendants, and no action element is taken
\* from inside such an element
C10_HiddenIsFlagged ==
    /\ pc = "flag_action" =>
          \A i \in Reachable(nodes) :
              HiddenByAttribute(nodes, i) =>
                  \A k \in 1..Len(Iter(nodes, i)) : Iter(nodes, i)[k] \in flagged
    /\ (pc = "simplify" /\ pass = 1) =>
          \A i \in Reachable(nodes) :
              HiddenByAttribute(nodes, i) =>
                  \A k \in 1..Len(actions) :
                      ~InSeq(Iter(nodes, i), actions[k].html_element)

\* C11: when several threads make their first call to expand_keywords at the
\* same time, each of the three collaborators is loaded at most once in
\* total, and a caller that is past init_expansion and its guard sees all
\* three populated
C11_LoadedAtMostOnce ==
    pc = "expand" =>
        /\ loads.en <= 1 /\ loads.index <= 1 /\ loads.stopwords <= 1
        /\ \A t \in DOMAIN tpc :
              tpc[t] = "expanding" =>
                 globals.en # None /\ globals.index # None /\ globals.stopwords # None

\* C12: when two parse() calls interleave, every classification step of a
\* call (flag_noise_elements, flag_action_elements) queries the style rules
\* of the document of that call: the style rule index is not replaced
\* between its construction for a document and the last selector query for
\* that document
C12_OwnStyleRules ==
    [][(FlagNoise \/ FlagAction) => all_rules = parse_css_to_ast(nodes)]_vars

\* C14: a query whose entity is None or the empty string is rejected with an
\* error as soon as it is handed to get_top_keywords: the call selects no
\* keyword for it
C14_EmptyEntityRejected ==
    pc = "selected" => relation.entity \notin {None, ""}

\* C13: a call of expand_keywords never ends in an exception, also when the
\* alias index or the lexical database cannot be loaded
C13_LoadFailureTolerated ==
    pc = "expand" => \A t \in DOMAIN tpc : tpc[t] # "raised"

\* C15: the list get_top_keywords returns holds the entity term, at tier
\* HIGHEST when the title is absent or does not contain the entity and at
\* tier HIGH when it does, however many keywords the attribute expands to
C15_EntityAlwaysKept ==
    pc = "selected" /\ relation.entity \notin {None, ""} =>
        InSeq(top_keywords,
              <<relation.entity,
                IF title # None /\ Contains(Lower(title), Lower(relation.entity))
                THEN HIGH ELSE HIGHEST>>)

\* C18: the list expand_keywords returns holds every term at most once
C18_TermsUnique ==
    pc = "expanded" =>
        \A i, j \in DOMAIN top_keywords :
            top_keywords[i][1] = top_keywords[j][1] => i = j

\* the set of the elements of a sequence
Range(s) == {s[i] : i \in DOMAIN s}

\* C19: in the list expand_keywords returns, a term carries the highest tier
\* it qualifies for: HIGHEST when it is a word of an alias of the keyword,
\* else HIGH when it is a form of a word of a synset of an expanded word,
\* else LOW, in whatever order the synsets were visited
C19_HighestQualifyingTier ==
    pc = "expanded" =>
        LET keyword == relation.attribute
            aliasTerms == IF keyword \in DOMAIN index
                          THEN UNION {Range(Words(index[keyword][k])) : k \in DOMAIN index[keyword]}
                          ELSE {}
            expanded == {keyword} \cup {w \in Range(Words(keyword)) : ~InSeq(stopwords, w)}
            directTerms == UNION {UNION {Range(Flatten(Synsets(w)[k].words)) :
                                            k \in DOMAIN Synsets(w)} : w \in expanded}
        IN \A i \in DOMAIN top_keywords :
              top_keywords[i][2] = IF top_keywords[i][1] \in aliasTerms THEN HIGHEST
                                   ELSE IF top_keywords[i][1] \in directTerms THEN HIGH
                                   ELSE LOW

\* C16: the text rank_elements extracts with get_text_content from a node
\* flagged simplified is the stored text of that node, verbatim, without
\* bullets or indentation added to it
C16_SimplifiedVerbatim ==
    Len(rankLog) = 1 =>
        \A m \in DOMAIN rankLog[1].elements :
            Get(nodes[rankLog[1].elements[m].html_element].attrs, FLAG_ATTRIBUTE_TYPE, None)
                  = FLAG_VALUE_SIMPLIFIED
               => rankLog[1].elements[m].content = nodes[rankLog[1].elements[m].html_element].text

\* C20: rank_elements evaluates the tier queries in the order HIGHEST, HIGH,
\* MEDIUM, LOW, and every node it records as a fragment is removed from the
\* live tree with its subtree, so that no node is recorded twice: when the
\* call returns, no recorded node is in the tree
C20_RecordedNodesPruned ==
    Len(rankLog) = 1 /\ ~rankLog[1].raised =>
        /\ \A a, b \in DOMAIN get_xpath_queries(rankLog[1].keywords) :
              a < b => get_xpath_queries(rankLog[1].keywords)[a].relevance
                          > get_xpath_queries(rankLog[1].keywords)[b].relevance
        /\ \A a, b \in DOMAIN rankLog[1].elements :
              rankLog[1].elements[a].html_element = rankLog[1].elements[b].html_element => a = b
        /\ \A m \in DOMAIN rankLog[1].elements :
              rankLog[1].elements[m].html_element \notin Reachable(nodes)

\* the elements of the tree that carry the noise flag
NoiseIn(ns) ==
    {j \in Reachable(ns) : Get(ns[j].attrs, FLAG_ATTRIBUTE_TYPE, "") = FLAG_VALUE_NOISE}

\* the sequence in reverse order
Reverse(s) == [k \in 1..Len(s) |-> s[Len(s) + 1 - k]]

\* C17: the noise flag is monotonic and wins over the action flags.  An
\* element flagged noise by the attribute pass or by a selector task is
\* flagged noise when flag_noise_elements returns, in whatever order the
\* selector tasks ran; flag_action_elements leaves every element flagged noise
\* with the noise flag and without a preserved path; get_action_elements
\* returns no action for an element flagged noise
C17_NoiseFlagWins ==
    [][ /\ FlagNoise =>
              /\ NoiseIn(FlagByAttributes(
                            DropTrees(nodes, SelectSeq(Iter(nodes, Root),
                                                       LAMBDA j : nodes[j].tag = COMMENT)),
                            noise_attributes)) \subseteq flagged'
              /\ NoiseIn(FlagBySelectors(nodes, FilterSelectorsOfPairs(all_rules, noise_styles)))
                    \subseteq flagged'
              /\ NoiseIn(FlagBySelectors(
                            nodes, Reverse(FilterSelectorsOfPairs(all_rules, noise_styles))))
                    = NoiseIn(FlagBySelectors(
                                 nodes, FilterSelectorsOfPairs(all_rules, noise_styles)))
        /\ FlagAction =>
              \A j \in flagged :
                  /\ Get(nodes'[j].attrs, FLAG_ATTRIBUTE_TYPE, "") = FLAG_VALUE_NOISE
                  /\ FLAG_ATTRIBUTE_XPATH \notin DOMAIN nodes'[j].attrs
        /\ GetActionElements =>
              \A k \in DOMAIN actions' : actions'[k].html_element \notin flagged
      ]_vars

\* flag_action_elements and get_action_elements have run on a tree in which
\* a link with text, a candidate for the LINK flag, was flagged noise
C17_Witness ==
    /\ pc = "simplify"
    /\ \E j \in flagged : nodes[j].tag = "a" /\ nodes[j].text # ""

\* C21: in the style pass of flag_noise_elements the flagging writes are
\* serialized: no two selector tasks are inside their element-flagging loop
\* at the same time
C21_FlaggingSerialized ==
    pc = "flag_styles" =>
        \A t, u \in DOMAIN tpc : tpc[t] = "flagging" /\ tpc[u] = "flagging" => t = u

\* C22: the path stored on an action is captured by flag_action_elements in
\* the tree as parsed: the noise pass before it changes the path of no
\* element, flag_action_elements stores the path the element has at that
\* point, remove_noise_elements and replace_aria_roles leave the stored path
\* alone, and get_action_elements hands it out unchanged
C22_PathCapturedBeforeCleanup ==
    [][/\ FlagNoise =>
            \A j \in Reachable(nodes') :
                nodes'[j].tag # COMMENT => GetPath(nodes', j) = GetPath(nodes, j)
       /\ FlagAction =>
            \A j \in Reachable(nodes') :
                nodes'[j].attrs # nodes[j].attrs =>
                    Get(nodes'[j].attrs, FLAG_ATTRIBUTE_XPATH, None) = GetPath(nodes, j)
       /\ (RemoveNoise \/ ReplaceAriaRoles) =>
            \A j \in Reachable(nodes') :
                Get(nodes'[j].attrs, FLAG_ATTRIBUTE_XPATH, None)
                    = Get(nodes[j].attrs, FLAG_ATTRIBUTE_XPATH, None)
       /\ GetActionElements =>
            \A k \in DOMAIN actions' :
                actions'[k].xpath
                    = Get(nodes[actions'[k].html_element].attrs, FLAG_ATTRIBUTE_XPATH, None)
      ]_vars

\* an action whose element has another path after the cleanup than the one
\* stored on it
C22_Witness ==
    /\ pc = "simplify"
    /\ \E k \in DOMAIN actions : actions[k].xpath # GetPath(nodes, actions[k].html_element)

\* C23: after the first rank() of a document every action that is not a
\* search input has the location dimension and, as content relevance, the
\* tier of the first keyword that occurs in its content when letter case is
\* ignored on both sides, LOW when no keyword occurs
C23_FirstKeywordIgnoringCase ==
    Len(rankLog) = 1 /\ ~rankLog[1].raised =>
        \A k \in DOMAIN rankLog[1].action_elements :
            \E a \in {rankLog[1].action_elements[k]}, kws \in {rankLog[1].keywords} :
                ~(a.type = "INPUT" /\ Contains(Lower(getdetails(a)), "search")) =>
                    \E hits \in {{m \in 1..Len(kws) :
                                    a.content # None
                                    /\ Contains(Lower(a.content), Lower(kws[m][1]))}} :
                        /\ "location" \in DOMAIN a.relevance
                        /\ a.relevance.content =
                              IF hits = {} THEN LOW
                              ELSE kws[CHOOSE m \in hits : \A n \in hits : m <= n][2]

\* whether a rule has the declaration property: value, whatever the type of
\* the value token
DeclaresValue(r, property, value) ==
    \E k \in 1..Len(r.content) :
        /\ r.content[k].type = "ident"
        /\ Lower(r.content[k].value) = property
        /\ \E v \in (k + 1)..Len(r.content) :
              /\ r.content[v].type \notin {"literal", "whitespace"}
              /\ \A m \in (k + 1)..(v - 1) : r.content[m].type \in {"literal", "whitespace"}
              /\ Lower(r.content[v].value) = value

\* C24: when the noise classifier has returned, every element matched by the
\* selector of a style rule that declares one of the hiding pairs carries the
\* noise flag, and so does every descendant of it
C24_HiddenByStyleIsFlagged ==
    pc = "flag_action" /\ pass = 1 =>
        \A r \in DOMAIN all_rules, p \in DOMAIN noise_styles :
            DeclaresValue(all_rules[r], noise_styles[p][1], noise_styles[p][2]) =>
                \A e \in Range(Select(nodes, all_rules[r].prelude)) :
                    \A j \in Range(Iter(nodes, e)) :
                        Get(nodes[j].attrs, FLAG_ATTRIBUTE_TYPE, None) = FLAG_VALUE_NOISE

\* C25: simplify_html returns on every document with an ordered list, and
\* every ordered list it leaves in the tree is a simplified text node whose
\* lines are the texts of the list's own items in order, each with its number
C25_OrderedListOwnItems ==
    [][SimplifyHtml /\ XPathTag(nodes, "ol") # <<>> =>
         /\ pc' = "parsed"
         /\ \A ol \in Range(XPathTag(nodes', "ol")) :
               /\ Get(nodes'[ol].attrs, FLAG_ATTRIBUTE_TYPE, None) = FLAG_VALUE_SIMPLIFIED
               /\ \E addr \in AddressChoices(nodes) :
                     nodes'[ol].text =
                        Join(NL, [k \in 1..Len(nodes[ol].kids) |->
                                    ReplaceFirst(get_text_content(nodes, nodes[ol].kids[k],
                                                                  TRUE, addr),
                                                 "-", ToStr(k - 1) \o ".")])
      ]_vars

C27_RankReturns == \A k \in DOMAIN rankLog : ~rankLog[k].raised

\* the location tier the claim gives for a path
LocationOf(path) ==
    IF Contains(path, "aside") \/ Contains(path, "nav") THEN LOW
    ELSE IF Contains(path, "header") \/ Contains(path, "footer") THEN MEDIUM
    ELSE IF Contains(path, "article") \/ Contains(path, "section") THEN HIGHEST
    ELSE IF Contains(path, "main") THEN HIGH
    ELSE MEDIUM

\* C28: every location relevance rank() gives, to a fragment or to an action,
\* is LOW under aside or nav, MEDIUM under header or footer, HIGHEST under
\* article or section, HIGH under main and MEDIUM otherwise, the first of
\* these tags that occurs anywhere in the path deciding
C28_LocationByFirstTag ==
    \A c \in DOMAIN rankLog :
        /\ \A k \in DOMAIN rankLog[c].elements :
              rankLog[c].elements[k].relevance.location
                  = LocationOf(rankLog[c].elements[k].xpath)
        /\ \A k \in DOMAIN rankLog[c].action_elements :
              "location" \in DOMAIN rankLog[c].action_elements[k].relevance =>
                  rankLog[c].action_elements[k].relevance.location
                      = LocationOf(rankLog[c].action_elements[k].modified_xpath)

\* an action inside a main element that is inside a nav element was given
\* the tier of nav
C28_Witness ==
    \E c \in DOMAIN rankLog :
        \E k \in DOMAIN rankLog[c].action_elements :
            /\ rankLog[c].action_elements[k].modified_xpath = "/html/body/nav/main/a"
            /\ "location" \in DOMAIN rankLog[c].action_elements[k].relevance
            /\ rankLog[c].action_elements[k].relevance.location = LOW

\* the kinds of action the element j of the tree ns qualifies for
KindsOf(ns, rules, j) ==
    (IF \/ ns[j].tag = "a" /\ Len(FirstText(ns, j)) > 0
        \/ /\ Len(Strip(TextContent(ns, j))) > 0
           /\ \E k \in DOMAIN FilterSelectorsOfPairs(rules, <<<<"cursor", "pointer">>>>) :
                 j \in Range(Select(ns, FilterSelectorsOfPairs(rules,
                                              <<<<"cursor", "pointer">>>>)[k]))
        \/ j \in Range(ByRoles(ns, link_aria_widget_roles))
     THEN {"LINK"} ELSE {})
    \cup
    (IF \/ ns[j].tag = "button" /\ Len(FirstText(ns, j)) > 0
        \/ ns[j].tag = "input" /\ Get(ns[j].attrs, "type", None) \in input_button_types
        \/ (DOMAIN ns[j].attrs) \cap click_event_attrs # {}
        \/ j \in Range(ByRoles(ns, button_aria_widget_roles))
     THEN {"BUTTON"} ELSE {})
    \cup
    (IF \/ /\ ns[j].tag = "input"
           /\ Get(ns[j].attrs, "type", None) \notin (input_button_types \cup {"hidden"})
        \/ ns[j].tag = "textarea"
        \/ j \in Range(ByRoles(ns, input_aria_widget_roles))
     THEN {"INPUT"} ELSE {})

\* C29: flag_action_elements leaves on every element that qualifies for an
\* action and is not noise exactly one kind, INPUT before BUTTON before LINK,
\* and get_action_elements makes at most one action of an element, of the
\* kind the element is flagged with
C29_OneActionPerNode ==
    [][/\ FlagAction =>
            \A j \in Reachable(nodes) :
                \E kinds \in {KindsOf(nodes, all_rules, j)} :
                    kinds # {} /\ nodes[j].tag # COMMENT
                    /\ Get(nodes[j].attrs, FLAG_ATTRIBUTE_TYPE, None) # FLAG_VALUE_NOISE =>
                        Get(nodes'[j].attrs, FLAG_ATTRIBUTE_TYPE, None) =
                            IF "INPUT" \in kinds THEN "INPUT"
                            ELSE IF "BUTTON" \in kinds THEN "BUTTON" ELSE "LINK"
       /\ GetActionElements =>
            /\ \A k, m \in DOMAIN actions' :
                  actions'[k].html_element = actions'[m].html_element => k = m
            /\ \A k \in DOMAIN actions' :
                  actions'[k].type
                      = Get(nodes[actions'[k].html_element].attrs, FLAG_ATTRIBUTE_TYPE, None)
      ]_vars

\* a link with a click handler became one BUTTON action and a textarea with a
\* click handler one INPUT action
C29_Witness ==
    /\ pc = "simplify"
    /\ \E k, m \in DOMAIN actions :
          /\ actions[k].type = "BUTTON" /\ actions[k].xpath = "/html/body/section/a"
          /\ actions[m].type = "INPUT" /\ actions[m].xpath = "/html/body/section/textarea"

\* C30: the fragments one call of rank_elements returns refer to different
\* nodes, none of which is, in the tree the call was given, an ancestor of
\* another
C30_FragmentsDisjoint ==
    [][Len(rankLog') = Len(rankLog) + 1 =>
         \A a, b \in DOMAIN rankLog'[Len(rankLog')].elements :
             a # b =>
                 rankLog'[Len(rankLog')].elements[a].html_element
                     \notin Range(Iter(nodes, rankLog'[Len(rankLog')].elements[b].html_element))
      ]_vars

====
